---- MODULE Spec2Model ----
(***************************************************************************)
(* A model of the go-mcp protocol dispatcher (Handler.Handle), of the      *)
(* cancellation registry and subscription set it owns, and of the          *)
(* tools/call and prompts/get shims that the code generator emits into     *)
(* NewHandler.                                                             *)
(*                                                                         *)
(* One Handle invocation is a "slot": Begin creates the child context and  *)
(* stores its cancel function, Dispatch runs the method switch up to the   *)
(* point where user code is entered or a result is known, FireCancel calls *)
(* a cancel function loaded by notifications/cancelled, UserHandlerReturn  *)
(* is the user handler returning, and Return runs the deferred Delete and  *)
(* hands the reply to the caller.                                          *)
(***************************************************************************)
EXTENDS Integers, Sequences, FiniteSets, TLC

(***************************************************************************)
(* Bounds of the model.                                                    *)
(***************************************************************************)
\* Handle invocations that may be in progress at the same time.
MaxInFlight == 2

Slots == 1..MaxInFlight

(***************************************************************************)
(* JSON values as encoding/json sees them.  A value is a string, a number, *)
(* null or an object; an object is a set of <<member name, value>> pairs.  *)
(***************************************************************************)
JStr(s) == [t |-> "str", n |-> 0, s |-> s, o |-> {}]
JNum(n) == [t |-> "num", n |-> n, s |-> "", o |-> {}]
JNull == [t |-> "null", n |-> 0, s |-> "", o |-> {}]
JObj(members) == [t |-> "obj", n |-> 0, s |-> "", o |-> members]

Has(obj, f) == \E p \in obj.o : p[1] = f
Get(obj, f) == (CHOOSE p \in obj.o : p[1] = f)[2]

\* req.Params / req.Arguments: raw bytes that are absent (empty), or hold a value.
RawAbsent == [present |-> FALSE, val |-> JNull]
Raw(v) == [present |-> TRUE, val |-> v]

(***************************************************************************)
(* json.Unmarshal(raw, &struct).  fields maps each member name the struct  *)
(* declares to the Go type of its field.  Empty input is an error, null is *)
(* a no-op, anything but an object is an error, unknown members are        *)
(* skipped, and a declared member must hold a value of the field's type.   *)
(***************************************************************************)
FieldAccepts(type, v) ==
    CASE type = "string" -> v.t \in {"str", "null"}
      [] type = "float64" -> v.t \in {"num", "null"}
      [] type = "RawMessage" -> TRUE
      [] type = "LogLevel" -> v.t = "str" /\ v.s \in {"debug", "info", "notice", "warning",
                                                     "error", "critical", "alert", "emergency"}
      [] OTHER -> FALSE

UnmarshalOK(raw, fields) ==
    /\ raw.present
    /\ \/ raw.val.t = "null"
       \/ /\ raw.val.t = "obj"
          /\ \A p \in raw.val.o :
                \A fd \in fields : fd[1] = p[1] => FieldAccepts(fd[2], p[2])

\* The string a string-typed field holds after a successful Unmarshal.
StringField(raw, f) ==
    IF raw.val.t = "obj" /\ Has(raw.val, f) /\ Get(raw.val, f).t = "str"
    THEN Get(raw.val, f).s
    ELSE ""

\* The raw bytes a json.RawMessage field holds after a successful Unmarshal.
RawField(raw, f) ==
    IF raw.val.t = "obj" /\ Has(raw.val, f) THEN Raw(Get(raw.val, f)) ELSE RawAbsent

(***************************************************************************)
(* protocol constants                                                      *)
(***************************************************************************)
ProtocolVersion20250326 == "2025-03-26"
ProtocolVersion20241105 == "2024-11-05"
LatestProtocolVersion == ProtocolVersion20250326
AvailableProtocolVersions == {ProtocolVersion20250326, ProtocolVersion20241105}

MethodPing == "ping"
MethodInitialize == "initialize"
MethodPromptsList == "prompts/list"
MethodPromptsGet == "prompts/get"
MethodToolsList == "tools/list"
MethodToolsCall == "tools/call"
MethodResourcesList == "resources/list"
MethodResourcesRead == "resources/read"
MethodResourceTemplatesList == "resources/templates/list"
MethodResourcesSubscribe == "resources/subscribe"
MethodResourcesUnsubscribe == "resources/unsubscribe"
MethodNotificationsInitialized == "notifications/initialized"
MethodNotificationsCancelled == "notifications/cancelled"
MethodCompletionComplete == "completion/complete"
MethodLoggingSetLevel == "logging/setLevel"

LevelDebug == -4
LevelInfo == 0
LevelNotice == 1
LevelWarning == 4
LevelError == 8
LevelCritical == 9
LevelAlert == 10
LevelEmergency == 11

\* LogLevel.UnmarshalJSON
LogLevelUnmarshalJSON(name) ==
    CASE name = "debug" -> LevelDebug
      [] name = "info" -> LevelInfo
      [] name = "notice" -> LevelNotice
      [] name = "warning" -> LevelWarning
      [] name = "error" -> LevelError
      [] name = "critical" -> LevelCritical
      [] name = "alert" -> LevelAlert
      [] name = "emergency" -> LevelEmergency

\* The Go structs that params are decoded into.
InitializeRequestParams == {<<"protocolVersion", "string">>}
GetPromptRequestParams == {<<"name", "string">>, <<"arguments", "RawMessage">>}
CallToolRequestParams == {<<"name", "string">>, <<"arguments", "RawMessage">>}
PaginationParams == {<<"cursor", "string">>}
ReadResourceRequest == {<<"uri", "string">>}
subscribeResourceRequest == {<<"method", "string">>, <<"params", "RawMessage">>, <<"uri", "string">>}
unsubscribeResourceRequest == {<<"method", "string">>, <<"params", "RawMessage">>, <<"uri", "string">>}
LoggingSetLevelRequestParams == {<<"level", "LogLevel">>}
NotificationsCancelledRequestParams == {<<"requestId", "string">>, <<"reason", "string">>}
CompleteRequestParams == {}

(***************************************************************************)
(* JSON-RPC request IDs (jsonrpc2.ID): an int64, a string, or none for a   *)
(* notification.  FormatID is fmt.Sprintf("%v", req.ID.Raw()).             *)
(***************************************************************************)
Int64ID(n) == [t |-> "int", n |-> n, s |-> ""]
StringID(s) == [t |-> "string", n |-> 0, s |-> s]
NoID == [t |-> "nil", n |-> 0, s |-> ""]

Digit == <<"0", "1", "2", "3", "4", "5", "6", "7", "8", "9">>

RECURSIVE FormatInt(_)
FormatInt(n) ==
    IF n < 0 THEN "-" \o FormatInt(0 - n)
    ELSE IF n < 10 THEN Digit[n + 1]
    ELSE FormatInt(n \div 10) \o Digit[(n % 10) + 1]

FormatID(id) ==
    CASE id.t = "int" -> FormatInt(id.n)
      [] id.t = "string" -> id.s
      [] id.t = "nil" -> "<nil>"

(***************************************************************************)
(* The server definition handed to the code generator: the capabilities a  *)
(* definition may declare, and the catalogs of the weather example.        *)
(***************************************************************************)
AllCapabilities == {"prompts", "resources", "tools", "completions", "logging"}

ServerImplementation == [name |-> "Weather Forecast MCP Server", version |-> "1.0.0"]

\* Each tool: its wire name and, per input field, <<json tag, Go type, enum values>>.
ToolList ==
    << [name |-> "convert_temperature",
        fields |-> {<<"temperature", "float64", {}>>,
                    <<"from_unit", "string", {"celsius", "fahrenheit"}>>,
                    <<"to_unit", "string", {"celsius", "fahrenheit"}>>}],
       [name |-> "calculate_humidity_index",
        fields |-> {<<"temperature", "float64", {}>>,
                    <<"humidity", "float64", {}>>}] >>

\* Each prompt: its wire name and its arguments (all string-typed in the request record).
PromptList ==
    << [name |-> "weather_report", fields |-> {"city", "language"}],
       [name |-> "weather_alert", fields |-> {"alert_type", "severity"}] >>

\* slices.IndexFunc(ToolList, func(t) bool { return t.Name == name }); 0 stands for -1.
IndexFunc(list, name) ==
    IF \E i \in 1..Len(list) : list[i].name = name
    THEN CHOOSE i \in 1..Len(list) :
            list[i].name = name /\ \A j \in 1..(i - 1) : list[j].name # name
    ELSE 0

(***************************************************************************)
(* The generated request records and the schema check.                     *)
(***************************************************************************)
\* The members Tool<Name>Request declares, as json.Unmarshal sees them.
ToolRequestFields(tool) == {<<fd[1], fd[2]>> : fd \in tool.fields}
PromptRequestFields(prompt) == {<<f, "string">> : f \in prompt.fields}

\* The zero value of a Go field.
ZeroValue(type) == IF type = "float64" THEN JNum(0) ELSE JStr("")

\* The value of one field of the request record after json.Unmarshal(arguments, &in):
\* the member's value when the arguments carry it (null leaves the field alone),
\* the zero value otherwise.
FieldValue(raw, f, type) ==
    IF raw.val.t = "obj" /\ Has(raw.val, f) /\ Get(raw.val, f).t # "null"
    THEN Get(raw.val, f)
    ELSE ZeroValue(type)

\* The document gojsonschema.NewGoLoader(in) validates: the request record marshaled
\* back to JSON.  No generated field carries omitempty, so every field is a member.
MarshalRequest(raw, fields) ==
    JObj({<<fd[1], FieldValue(raw, fd[1], fd[2])>> : fd \in fields})

\* The schema jsonschema.Reflector derives from the input struct: every field without
\* omitempty is required, carries its JSON type, and its enum when one is declared.
SchemaRequired(tool) == {fd[1] : fd \in tool.fields}
SchemaTypeOK(type, v) == IF type = "float64" THEN v.t = "num" ELSE v.t = "str"

\* protocol.ValidateByJSONSchema(schema, document): TRUE when it returns nil.
ValidateByJSONSchema(tool, doc) ==
    /\ \A f \in SchemaRequired(tool) : Has(doc, f)
    /\ \A fd \in tool.fields :
          Has(doc, fd[1]) =>
             /\ SchemaTypeOK(fd[2], Get(doc, fd[1]))
             /\ fd[3] # {} => Get(doc, fd[1]).s \in fd[3]

(***************************************************************************)
(* The shims NewHandler installs.  Each returns either the user handler    *)
(* method it enters, with the decoded request, or the error it returns     *)
(* without entering user code.                                             *)
(***************************************************************************)
ShimInvoke(handler, in) == [enter |-> TRUE, handler |-> handler, in |-> in, cause |-> ""]
ShimError(cause) == [enter |-> FALSE, handler |-> "", in |-> JNull, cause |-> cause]

\* Mutant: the shim without the schema validation.
ToolHandlerNoValidation(params) ==
    LET name == StringField(params, "name")
        arguments == RawField(params, "arguments")
        idx == IndexFunc(ToolList, name)
    IN  IF idx = 0 THEN ShimError("tool not found")
        ELSE LET tool == ToolList[idx]
                 in == MarshalRequest(arguments, ToolRequestFields(tool))
             IN  IF ~UnmarshalOK(arguments, ToolRequestFields(tool))
                 THEN ShimError("json: cannot unmarshal arguments")
                 ELSE ShimInvoke("HandleTool:" \o tool.name, in)

\* h.ToolHandler as generated: find the tool, unmarshal the arguments into its
\* request record, validate the record against the tool's schema, call the user.
ToolHandler(params) ==
    LET name == StringField(params, "name")
        arguments == RawField(params, "arguments")
        idx == IndexFunc(ToolList, name)
    IN  IF idx = 0 THEN ShimError("tool not found")
        ELSE LET tool == ToolList[idx]
                 in == MarshalRequest(arguments, ToolRequestFields(tool))
             IN  IF ~UnmarshalOK(arguments, ToolRequestFields(tool))
                 THEN ShimError("json: cannot unmarshal arguments")
                 ELSE IF ~ValidateByJSONSchema(tool, in)
                 THEN ShimError("invalid tool arguments")
                 ELSE ShimInvoke("HandleTool:" \o tool.name, in)

\* h.PromptHandler as generated: find the prompt, unmarshal the arguments, call the user.
PromptHandler(params) ==
    LET name == StringField(params, "name")
        arguments == RawField(params, "arguments")
        idx == IndexFunc(PromptList, name)
    IN  IF idx = 0 THEN ShimError("prompt not found")
        ELSE LET prompt == PromptList[idx]
             IN  IF ~UnmarshalOK(arguments, PromptRequestFields(prompt))
                 THEN ShimError("json: cannot unmarshal arguments")
                 ELSE ShimInvoke("HandlePrompt:" \o prompt.name,
                                 MarshalRequest(arguments, PromptRequestFields(prompt)))

(***************************************************************************)
(* State.                                                                  *)
(***************************************************************************)
VARIABLES
    Capabilities,           \* h.Capabilities: the capabilities that are present
    Implementation,         \* h.Implementation
    subscribedResources,    \* h.subscribedResources: the URIs stored in the sync.Map
    cancelFuncByRequestID,  \* h.cancelFuncByRequestID: <<key, slot whose cancel func it holds>>
    minimumLogLevel,        \* the package-level slog.LevelVar
    call,                   \* per slot: the Handle invocation's position, request and result
    ctxDone,                \* per slot: whether the child context of the invocation is cancelled
    build                   \* which of the two copies of Handle the binary was built from

\* The log bridge and the outbound stream of the stdio transport.
VARIABLES
    stdout,                 \* os.Stdout: the Write calls made on it, in order
    emit,                   \* per emitter: the position of one slog call on a Logger
    logBuf,                 \* per logHandler family: the shared bytes.Buffer
    logMu,                  \* per logHandler family: the emitter holding mu, "" when free
    replyWrite              \* framerWriter.Write: the position of the reply being written

logVars == <<stdout, emit, logBuf, logMu, replyWrite>>

\* The library's functions that run outside a connection.
VARIABLES
    marshal,                \* one MarshalJSON call of a content value carrying a byte stream
    listener,               \* the stdioListener NewStdioTransport returned
    accept,                 \* per caller: the position and the results of its Accept call
    gen,                    \* one run of the code generator
    naming,                 \* one pascalCase call: the name given and the string returned
    leveling                \* one conversion between a log level and its name

listenerVars == <<listener, accept>>
pureVars == <<naming, leveling>>
offline == <<marshal, listenerVars, gen, pureVars>>

\* Everything outside the Handler.
periphery == <<logVars, offline>>

vars == <<Capabilities, Implementation, subscribedResources, cancelFuncByRequestID,
          minimumLogLevel, call, ctxDone, build, periphery>>

config == <<Capabilities, Implementation, build>>
handlerVars == <<Implementation, subscribedResources, cancelFuncByRequestID, call, ctxDone>>

\* The source holds two copies of Handle: one keys the registry by the formatted
\* string of the request ID, the other by the jsonrpc2.ID value itself.
Builds == {"string-key", "id-key"}

\* The handler fields NewHandler sets: each one exactly when its capability is declared.
PromptHandlerSet == "prompts" \in Capabilities
ToolHandlerSet == "tools" \in Capabilities
ResourceHandlerSet == "resources" \in Capabilities
CompletionHandlerSet == "completions" \in Capabilities

(***************************************************************************)
(* Replies and errors of Handle.                                           *)
(***************************************************************************)
NoInfo == [name |-> "", version |-> ""]
Reply(kind) ==
    [kind |-> kind, protocolVersion |-> "", capabilities |-> {}, serverInfo |-> NoInfo,
     isError |-> FALSE, content |-> ""]
ReplyNil == Reply("nil")                 \* return nil, nil
ReplyEmpty == Reply("struct{}{}")        \* return struct{}{}, nil
InitializeResult(version, capabilities, info) ==
    [Reply("InitializeResult") EXCEPT !.protocolVersion = version,
                                      !.capabilities = capabilities,
                                      !.serverInfo = info]
\* What a user handler hands back: a result value, or a Go error.
UserResult(kind, isError, content) ==
    [Reply(kind) EXCEPT !.isError = isError, !.content = content]

NoErr == [kind |-> "nil", cause |-> ""]
ErrInvalidParams == [kind |-> "ErrInvalidParams", cause |-> ""]
ErrMethodNotFound == [kind |-> "ErrMethodNotFound", cause |-> ""]
ErrFailedToHandle(cause) == [kind |-> "failed to handle", cause |-> cause]
ErrNextCursor == [kind |-> "failed to get next cursor", cause |-> "unmarshal"]
\* Calling a method on a nil interface value: a run-time panic.
NilHandlerPanic == [kind |-> "panic", cause |-> "nil pointer dereference"]

(***************************************************************************)
(* The position of one Handle invocation.                                  *)
(***************************************************************************)
NoCursor == [set |-> FALSE, value |-> ""]
\* pc is where the invocation stands; handler, in and cursor are what user code was
\* entered with; v is the cancel function LoadAndDelete returned (a slot, 0 for none);
\* userRes and userErr record what the user handler returned, and peers the
\* invocations that were already in progress when this one began and still are.
IdleCall ==
    [pc |-> "idle", method |-> "", id |-> NoID, params |-> RawAbsent,
     reply |-> ReplyNil, err |-> NoErr,
     handler |-> "", in |-> JNull, cursor |-> NoCursor, v |-> 0,
     userRes |-> ReplyNil, userErr |-> "", peers |-> {}]

InFlight(s) == call[s].pc \in {"started", "inHandler", "cancelling", "returning"}
\* A panic in Handle is not recovered: the process is gone.
Crashed == \E s \in Slots : call[s].pc = "done" /\ call[s].err.kind = "panic"

\* A registry key that is a Go string.
GoString(str) == [t |-> "gostring", n |-> 0, s |-> str]

\* The key Handle registers the cancel function of a request under.
RegistryKey(id) == IF build = "string-key" THEN GoString(FormatID(id)) ELSE id

\* sync.Map operations on the registry and the subscription set.
Store(m, k, x) == {p \in m : p[1] # k} \cup {<<k, x>>}
Delete(m, k) == {p \in m : p[1] # k}
Loaded(m, k) == IF \E p \in m : p[1] = k THEN (CHOOSE p \in m : p[1] = k)[2] ELSE 0

\* Handler.IsSubscribed
IsSubscribed(uri) == uri \in subscribedResources

\* Mutant: the cursor of the request is not handed on.
nextCursorFromRequestDropped(params) == ""

\* nextCursorFromRequest: the cursor string, once the params decoded.
nextCursorFromRequest(params) == StringField(params, "cursor")

\* NextCursor(ctx) on the context a user handler received.
NextCursor(cursor) == IF cursor.set THEN <<cursor.value, TRUE>> ELSE <<"", FALSE>>

(***************************************************************************)
(* Handler.Handle: the method switch.                                      *)
(***************************************************************************)
\* Mutant: the proposed version is never echoed.
NegotiateVersionAlwaysLatest(proposed) == LatestProtocolVersion

\* The version placed in the initialize reply.
NegotiateVersion(proposed) ==
    IF proposed \in AvailableProtocolVersions THEN proposed ELSE LatestProtocolVersion

\* Handle returns (reply, err); the deferred Delete is still to run.
Finish(c, reply, err) == [c EXCEPT !.pc = "returning", !.reply = reply, !.err = err]

\* Handle calls into user code with a context carrying cursor.
Enter(c, handler, in, cursor) ==
    [c EXCEPT !.pc = "inHandler", !.handler = handler, !.in = in, !.cursor = cursor]

\* Handle calls a generated shim, which enters user code or returns an error.
ViaShim(c, shim) ==
    IF shim.enter
    THEN Enter(c, shim.handler, shim.in, NoCursor)
    ELSE Finish(c, ReplyNil, ErrFailedToHandle(shim.cause))

CaseInitialize(c) ==
    IF ~UnmarshalOK(c.params, InitializeRequestParams)
    THEN Finish(c, ReplyNil, ErrInvalidParams)
    ELSE Finish(c, InitializeResult(NegotiateVersion(StringField(c.params, "protocolVersion")),
                                    Capabilities, Implementation),
                NoErr)

CasePromptsGet(c) ==
    IF ~UnmarshalOK(c.params, GetPromptRequestParams)
    THEN Finish(c, ReplyNil, ErrInvalidParams)
    ELSE IF ~PromptHandlerSet
    THEN Finish(c, ReplyNil, NilHandlerPanic)
    ELSE ViaShim(c, PromptHandler(c.params))

CaseResourcesList(c) ==
    IF ~ResourceHandlerSet
    THEN Finish(c, ReplyNil, ErrMethodNotFound)
    ELSE IF ~UnmarshalOK(c.params, PaginationParams)
    THEN Finish(c, ReplyNil, ErrNextCursor)
    ELSE Enter(c, "HandleResourcesList", JNull,
               [set |-> TRUE, value |-> nextCursorFromRequest(c.params)])

CaseResourcesRead(c) ==
    IF ~ResourceHandlerSet
    THEN Finish(c, ReplyNil, ErrMethodNotFound)
    ELSE IF ~UnmarshalOK(c.params, ReadResourceRequest)
    THEN Finish(c, ReplyNil, ErrInvalidParams)
    ELSE Enter(c, "HandleResourcesRead", JNull, NoCursor)

CaseResourceTemplatesList(c) ==
    IF "resources" \notin Capabilities
    THEN Finish(c, ReplyNil, ErrMethodNotFound)
    ELSE Finish(c, Reply("listResourceTemplatesResult"), NoErr)

CaseResourcesSubscribe(c) ==
    IF ~UnmarshalOK(c.params, subscribeResourceRequest)
    THEN Finish(c, ReplyNil, ErrInvalidParams)
    ELSE Finish(c, ReplyEmpty, NoErr)

CaseResourcesUnsubscribe(c) ==
    IF ~UnmarshalOK(c.params, unsubscribeResourceRequest)
    THEN Finish(c, ReplyNil, ErrInvalidParams)
    ELSE Finish(c, ReplyEmpty, NoErr)

CaseToolsList(c) ==
    IF "tools" \notin Capabilities
    THEN Finish(c, ReplyNil, ErrMethodNotFound)
    ELSE Finish(c, Reply("listToolsResult"), NoErr)

CaseToolsCall(c) ==
    IF ~UnmarshalOK(c.params, CallToolRequestParams)
    THEN Finish(c, ReplyNil, ErrInvalidParams)
    ELSE IF ~ToolHandlerSet
    THEN Finish(c, ReplyNil, NilHandlerPanic)
    ELSE ViaShim(c, ToolHandler(c.params))

CaseLoggingSetLevel(c) ==
    IF ~UnmarshalOK(c.params, LoggingSetLevelRequestParams)
    THEN Finish(c, ReplyNil, ErrInvalidParams)
    ELSE Finish(c, ReplyEmpty, NoErr)

\* The key notifications/cancelled looks up: fmt.Sprintf("%v", params.RequestID).
\* The numbers and strings a requestId text is read back as.
IDNumbers == {7, 12, -3}
IDStrings == {"7", "abc"}
Quoted(str) == "\"" \o str \o "\""

\* What json.Unmarshal([]byte(params.RequestID), &requestID) may leave in requestID.
\* A text that is not JSON is an error.  A JSON number or string reaches the decoding
\* of jsonrpc2.ID, which is not part of this source: it yields that ID, or an error.
UnmarshalRequestID(text) ==
    IF \E n \in IDNumbers : FormatInt(n) = text
    THEN {[ok |-> TRUE, id |-> Int64ID(n)] : n \in {m \in IDNumbers : FormatInt(m) = text}}
         \cup {[ok |-> FALSE, id |-> NoID]}
    ELSE IF \E str \in IDStrings : Quoted(str) = text
    THEN {[ok |-> TRUE, id |-> StringID(str)] : str \in {x \in IDStrings : Quoted(x) = text}}
         \cup {[ok |-> FALSE, id |-> NoID]}
    ELSE {[ok |-> FALSE, id |-> NoID]}

\* The key notifications/cancelled looks up, with whether it could be formed.
CancelKeys(c) ==
    IF c.method # MethodNotificationsCancelled
       \/ ~UnmarshalOK(c.params, NotificationsCancelledRequestParams)
    THEN {[ok |-> FALSE, id |-> NoID]}
    ELSE IF build = "string-key"
    THEN {[ok |-> TRUE, id |-> GoString(StringField(c.params, "requestId"))]}
    ELSE UnmarshalRequestID(StringField(c.params, "requestId"))

\* v, ok := LoadAndDelete(id); the cancel function is called in a later step.
CaseNotificationsCancelled(c, key) ==
    IF ~UnmarshalOK(c.params, NotificationsCancelledRequestParams)
    THEN Finish(c, ReplyNil, ErrInvalidParams)
    ELSE IF ~key.ok
    THEN Finish(c, ReplyNil, ErrInvalidParams)
    ELSE IF Loaded(cancelFuncByRequestID, key.id) # 0
    THEN [c EXCEPT !.pc = "cancelling", !.v = Loaded(cancelFuncByRequestID, key.id)]
    ELSE Finish(c, ReplyNil, NoErr)

CaseCompletionComplete(c) ==
    IF ~UnmarshalOK(c.params, CompleteRequestParams)
    THEN Finish(c, ReplyNil, ErrInvalidParams)
    ELSE IF ~CompletionHandlerSet
    THEN Finish(c, ReplyNil, ErrMethodNotFound)
    ELSE Enter(c, "HandleComplete", JNull, NoCursor)

\* The invocation after the switch has run up to its return or its call into user code.
HandleSwitch(c, key) ==
    CASE c.method = MethodPing -> Finish(c, ReplyEmpty, NoErr)
      [] c.method = MethodInitialize -> CaseInitialize(c)
      [] c.method = MethodNotificationsInitialized -> Finish(c, ReplyNil, NoErr)
      [] c.method = MethodPromptsList -> Finish(c, Reply("listPromptsResult"), NoErr)
      [] c.method = MethodPromptsGet -> CasePromptsGet(c)
      [] c.method = MethodResourcesList -> CaseResourcesList(c)
      [] c.method = MethodResourcesRead -> CaseResourcesRead(c)
      [] c.method = MethodResourceTemplatesList -> CaseResourceTemplatesList(c)
      [] c.method = MethodResourcesSubscribe -> CaseResourcesSubscribe(c)
      [] c.method = MethodResourcesUnsubscribe -> CaseResourcesUnsubscribe(c)
      [] c.method = MethodToolsList -> CaseToolsList(c)
      [] c.method = MethodToolsCall -> CaseToolsCall(c)
      [] c.method = MethodLoggingSetLevel -> CaseLoggingSetLevel(c)
      [] c.method = MethodNotificationsCancelled -> CaseNotificationsCancelled(c, key)
      [] c.method = MethodCompletionComplete -> CaseCompletionComplete(c)
      [] OTHER -> Finish(c, ReplyNil, ErrMethodNotFound)

\* Mutant: unsubscribe drops every subscription.
SubscribedAfterClearAll(c) ==
    IF c.method = MethodResourcesSubscribe /\ UnmarshalOK(c.params, subscribeResourceRequest)
    THEN subscribedResources \cup {StringField(c.params, "uri")}
    ELSE IF c.method = MethodResourcesUnsubscribe
            /\ UnmarshalOK(c.params, unsubscribeResourceRequest)
    THEN {}
    ELSE subscribedResources

\* h.subscribedResources after the switch: Store on subscribe, Delete on unsubscribe.
SubscribedAfter(c) ==
    IF c.method = MethodResourcesSubscribe /\ UnmarshalOK(c.params, subscribeResourceRequest)
    THEN subscribedResources \cup {StringField(c.params, "uri")}
    ELSE IF c.method = MethodResourcesUnsubscribe
            /\ UnmarshalOK(c.params, unsubscribeResourceRequest)
    THEN subscribedResources \ {StringField(c.params, "uri")}
    ELSE subscribedResources

\* minimumLogLevel after the switch: Set on logging/setLevel.
LevelAfter(c) ==
    IF c.method = MethodLoggingSetLevel /\ UnmarshalOK(c.params, LoggingSetLevelRequestParams)
       /\ c.params.val.t = "obj" /\ Has(c.params.val, "level")
    THEN LogLevelUnmarshalJSON(StringField(c.params, "level"))
    ELSE IF c.method = MethodLoggingSetLevel
            /\ UnmarshalOK(c.params, LoggingSetLevelRequestParams)
    THEN 0
    ELSE minimumLogLevel

\* h.cancelFuncByRequestID after the switch: LoadAndDelete on notifications/cancelled.
RegistryAfter(c, key) ==
    IF c.method = MethodNotificationsCancelled
       /\ UnmarshalOK(c.params, NotificationsCancelledRequestParams)
       /\ key.ok
    THEN Delete(cancelFuncByRequestID, key.id)
    ELSE cancelFuncByRequestID

(***************************************************************************)
(* The requests a client sends.                                            *)
(***************************************************************************)
Obj(members) == Raw(JObj(members))

\* Params every method is tried with: none, a JSON string, null, an empty object.
CommonParams == {RawAbsent, Raw(JStr("x")), Raw(JNull), Obj({})}

URIs == {"weather://x", "weather://y"}

ConvertArgs(members) ==
    Obj({<<"name", JStr("convert_temperature")>>, <<"arguments", JObj(members)>>})
HumidityArgs(members) ==
    Obj({<<"name", JStr("calculate_humidity_index")>>, <<"arguments", JObj(members)>>})

ValidConvert ==
    ConvertArgs({<<"temperature", JNum(0)>>, <<"from_unit", JStr("celsius")>>,
                 <<"to_unit", JStr("fahrenheit")>>})

ToolsCallParams ==
    { ValidConvert,
      \* a required number omitted
      ConvertArgs({<<"from_unit", JStr("celsius")>>, <<"to_unit", JStr("fahrenheit")>>}),
      \* an enum value that is not declared
      ConvertArgs({<<"temperature", JNum(0)>>, <<"from_unit", JStr("kelvin")>>,
                   <<"to_unit", JStr("celsius")>>}),
      \* a required enum field omitted
      ConvertArgs({<<"temperature", JNum(0)>>, <<"to_unit", JStr("celsius")>>}),
      \* a string where a number is declared
      ConvertArgs({<<"temperature", JStr("hot")>>, <<"from_unit", JStr("celsius")>>,
                   <<"to_unit", JStr("fahrenheit")>>}),
      ConvertArgs({}),
      \* no arguments member, and arguments: null
      Obj({<<"name", JStr("convert_temperature")>>}),
      Obj({<<"name", JStr("convert_temperature")>>, <<"arguments", JNull>>}),
      HumidityArgs({<<"temperature", JNum(20)>>, <<"humidity", JNum(50)>>}),
      HumidityArgs({<<"temperature", JNum(20)>>}),
      \* a name outside the catalog, and a name of the wrong type
      Obj({<<"name", JStr("nope")>>, <<"arguments", JObj({})>>}),
      Obj({<<"name", JNum(1)>>}) }

PromptsGetParams ==
    { Obj({<<"name", JStr("weather_report")>>,
           <<"arguments", JObj({<<"city", JStr("tokyo")>>})>>}),
      Obj({<<"name", JStr("weather_report")>>}),
      Obj({<<"name", JStr("weather_alert")>>,
           <<"arguments", JObj({<<"alert_type", JStr("rain")>>, <<"severity", JNum(3)>>})>>}),
      Obj({<<"name", JStr("nope")>>, <<"arguments", JObj({})>>}) }

ParamsFor(method) ==
    CommonParams \cup
    CASE method = MethodInitialize ->
            {Obj({<<"protocolVersion", JStr(v)>>}) :
                v \in {"2025-03-26", "2024-11-05", "1999-01-01", ""}}
            \cup {Obj({<<"protocolVersion", JNum(1)>>})}
      [] method = MethodPromptsGet -> PromptsGetParams
      [] method = MethodToolsCall -> ToolsCallParams
      [] method = MethodResourcesList ->
            {Obj({<<"cursor", JStr(c)>>}) : c \in {"c1", "12", ""}}
            \cup {Obj({<<"cursor", JNum(1)>>})}
      [] method = MethodResourcesRead -> {Obj({<<"uri", JStr("weather://x")>>})}
      [] method \in {MethodResourcesSubscribe, MethodResourcesUnsubscribe} ->
            {Obj({<<"uri", JStr(u)>>}) : u \in URIs} \cup {Obj({<<"uri", JNum(1)>>})}
      [] method = MethodLoggingSetLevel ->
            {Obj({<<"level", JStr(l)>>}) : l \in {"warning", "loud"}}
      [] method = MethodNotificationsCancelled ->
            {Obj({<<"requestId", JStr(k)>>}) : k \in {"7", Quoted("abc"), "zzz"}}
            \cup {Obj({<<"requestId", JNum(7)>>})}
      [] OTHER -> {}

Methods ==
    {MethodPing, MethodInitialize, MethodNotificationsInitialized, MethodPromptsList,
     MethodPromptsGet, MethodResourcesList, MethodResourcesRead, MethodResourceTemplatesList,
     MethodResourcesSubscribe, MethodResourcesUnsubscribe, MethodToolsList, MethodToolsCall,
     MethodLoggingSetLevel, MethodNotificationsCancelled, MethodCompletionComplete,
     "no/such/method"}

Request(method, id, params) == [method |-> method, id |-> id, params |-> params]

\* A notification carries no ID; a client may still put one on it.
IDsFor(method) ==
    IF method \in {MethodNotificationsInitialized, MethodNotificationsCancelled}
    THEN {NoID, Int64ID(7)}
    ELSE {Int64ID(7)}

\* The whole method surface, one request at a time.
Requests ==
    UNION {{Request(m, id, p) : id \in IDsFor(m), p \in ParamsFor(m)} : m \in Methods}

(***************************************************************************)
(* What user handlers return.                                              *)
(***************************************************************************)
UserError == "user error"

\* <<result, error>> pairs a user handler may return; an empty error is nil.
UserOutcomes(handler) ==
    IF handler \in {"HandleTool:" \o ToolList[i].name : i \in 1..Len(ToolList)}
    THEN {<<UserResult("CallToolResult", FALSE, "ok"), "">>,
          <<UserResult("CallToolResult", TRUE, "tool failed"), "">>,
          <<ReplyNil, UserError>>}
    ELSE IF handler = "HandleComplete"
    THEN {<<UserResult("completion", FALSE, "ok"), "">>, <<ReplyNil, UserError>>}
    ELSE {<<UserResult("result", FALSE, "ok"), "">>, <<ReplyNil, UserError>>}

(***************************************************************************)
(* The log bridge: Logger, newLogHandler, logHandler.Handle, and the       *)
(* framing writer that shares os.Stdout with it.                           *)
(***************************************************************************)
\* Goroutines that may be inside a slog call at the same time: Handle, with its
\* "go-mcp" logger, and a user handler with a logger of its own choosing.
Emitters == {"Handle", "userHandler"}
\* Write calls on os.Stdout, made and still to be made by what is in progress.
MaxWrites == 3

\* The logHandler families: Logger(ctx, name) makes a new one, WithAttrs and
\* WithGroup copy the struct and so share mu, buf and encoder with their parent.
LogHandlers == {"go-mcp", "weather"}

\* The levels records are logged at, and the messages they carry.
RecordLevels == {LevelInfo, LevelWarning}
\* Each emitter logs a message of its own.
Message(e) == <<"msg", e>>

\* Mutant: the cascade compares with < instead of <=.
levelNameForLoggingStrict(level) ==
    CASE level < LevelDebug -> "debug"
      [] level < LevelInfo -> "info"
      [] level < LevelNotice -> "notice"
      [] level < LevelWarning -> "warning"
      [] level < LevelError -> "error"
      [] level < LevelCritical -> "critical"
      [] level < LevelAlert -> "alert"
      [] OTHER -> "emergency"

\* levelNameForLogging: the <= cascade over the slog levels.
levelNameForLogging(level) ==
    CASE level <= LevelDebug -> "debug"
      [] level <= LevelInfo -> "info"
      [] level <= LevelNotice -> "notice"
      [] level <= LevelWarning -> "warning"
      [] level <= LevelError -> "error"
      [] level <= LevelCritical -> "critical"
      [] level <= LevelAlert -> "alert"
      [] OTHER -> "emergency"

\* Mutant: the log bridge always gets the outbound stream.
LogWriterAlwaysStdout == "os.Stdout"

\* NewStdioTransport: the writer the log bridge is given.
LogWriter == IF "logging" \in Capabilities THEN "os.Stdout" ELSE "io.Discard"

\* slog.Logger asks the handler before it builds the record; the JSON handler's
\* Level option is minimumLogLevel.
Enabled(level) == level >= minimumLogLevel

\* What the embedded slog.JSONHandler writes into buf for one record.
Formatted(msg) == [msg |-> msg]

\* One Write call on os.Stdout.  record, by and floor are history: the record a log
\* frame was emitted for, its emitter, and minimumLogLevel when it was written.
Written(kind, level, logger, data, newline, record, floor) ==
    [kind |-> kind, method |-> IF kind = "log" THEN "notifications/message" ELSE "",
     level |-> level, logger |-> logger, data |-> data, newline |-> newline,
     record |-> record, floor |-> floor]
NoRecord == [msg |-> <<"msg", "">>, level |-> 0]
ReplyBytes == Written("reply", "", "", <<>>, FALSE, NoRecord, 0)
NewlineByte == Written("newline", "", "", <<>>, TRUE, NoRecord, 0)

IdleEmit == [pc |-> "idle", h |-> "go-mcp", level |-> 0, msg |-> <<"msg", "">>, data |-> <<>>]
IdleReplyWrite == [pc |-> "idle"]

LogIdle ==
    /\ stdout = <<>>
    /\ emit = [e \in Emitters |-> IdleEmit]
    /\ logBuf = [h \in LogHandlers |-> <<>>]
    /\ logMu = [h \in LogHandlers |-> ""]
    /\ replyWrite = IdleReplyWrite

(***************************************************************************)
(* ImageContent, AudioContent and BlobResourceContent: MarshalJSON.        *)
(***************************************************************************)
\* The longest payload a content value is marshaled with.
MaxPayload == 4
\* The byte values payloads are made of.
Bytes == {0, 77, 255}
ContentTypes == {"ImageContent", "AudioContent", "BlobResourceContent"}

RECURSIVE SeqsUpTo(_, _)
SeqsUpTo(S, n) ==
    IF n = 0 THEN {<<>>}
    ELSE LET shorter == SeqsUpTo(S, n - 1)
         IN  shorter \cup {Append(q, x) : q \in {r \in shorter : Len(r) = n - 1}, x \in S}
Payloads == SeqsUpTo(Bytes, MaxPayload)

\* The alphabet of base64.StdEncoding.
encodeStd ==
    << "A", "B", "C", "D", "E", "F", "G", "H", "I", "J", "K", "L", "M", "N", "O", "P",
       "Q", "R", "S", "T", "U", "V", "W", "X", "Y", "Z", "a", "b", "c", "d", "e", "f",
       "g", "h", "i", "j", "k", "l", "m", "n", "o", "p", "q", "r", "s", "t", "u", "v",
       "w", "x", "y", "z", "0", "1", "2", "3", "4", "5", "6", "7", "8", "9", "+", "/" >>

\* Three bytes as four characters of the alphabet.
EncodeQuantum(b1, b2, b3) ==
    LET val == b1 * 65536 + b2 * 256 + b3
    IN  << encodeStd[(val \div 262144) + 1], encodeStd[((val \div 4096) % 64) + 1],
           encodeStd[((val \div 64) % 64) + 1], encodeStd[(val % 64) + 1] >>

\* The whole three-byte blocks of src, encoded.
RECURSIVE EncodeBlocks(_)
EncodeBlocks(src) ==
    IF Len(src) < 3 THEN <<>>
    ELSE EncodeQuantum(src[1], src[2], src[3]) \o EncodeBlocks(SubSeq(src, 4, Len(src)))

\* base64.NewEncoder(base64.StdEncoding, &buf): nothing buffered, nothing written.
NewEncoder == [buf |-> <<>>, out |-> <<>>]

\* encoder.Write(p): the buffered bytes and p are encoded in whole blocks of three
\* into the underlying buffer; what is left over, at most two bytes, stays in the
\* encoder until the next Write or Close.
EncoderWrite(enc, p) ==
    LET all == enc.buf \o p
        whole == (Len(all) \div 3) * 3
    IN  [buf |-> SubSeq(all, whole + 1, Len(all)),
         out |-> enc.out \o EncodeBlocks(SubSeq(all, 1, whole))]

\* The position of one MarshalJSON call: the bytes the reader has yet to deliver,
\* the encoder, and the `data` member of the JSON it returned.
NewMarshal(type, payload) ==
    [pc |-> "copying", type |-> type, payload |-> payload, rest |-> payload,
     encoder |-> NewEncoder, data |-> <<>>]
IdleMarshal == [NewMarshal("ImageContent", <<>>) EXCEPT !.pc = "idle"]
MarshalIdle == marshal = IdleMarshal

(***************************************************************************)
(* The stdio listener.                                                     *)
(***************************************************************************)
\* The goroutines that call Accept on the listener.
MaxAcceptors == 3
Acceptors == 1..MaxAcceptors
\* opts.MaxConns when it is left at zero.
DefaultMaxConns == 5
\* The values StdioTransportOptions.MaxConns is given; 0 is "not set".
MaxConnsOptions == {0, 1, 2}

\* NewStdioTransport: the listener.  The copy with the token channel gives it
\* capacity opts.MaxConns, 5 when that is 0; the other copy has the accepted flag
\* and no option.  maxConns is opts.MaxConns as the caller gave it; ctxDone is the
\* context the Accept calls are made with.
NewStdioListener(maxConns) ==
    [maxConns |-> IF build = "string-key" THEN maxConns ELSE 0,
     capacity |-> IF build = "string-key"
                  THEN IF maxConns = 0 THEN DefaultMaxConns ELSE maxConns
                  ELSE 0,
     tokens |-> 0, accepted |-> FALSE, ctxDone |-> FALSE]

IdleAccept == [pc |-> "idle", conn |-> FALSE, err |-> "", closed |-> FALSE]
ListenerIdle ==
    /\ listener = NewStdioListener(0)
    /\ accept = [a \in Acceptors |-> IdleAccept]

\* A goroutine calls l.Accept(ctx).
AcceptCall(a) ==
    /\ accept[a].pc = "idle"
    /\ accept' = [accept EXCEPT ![a].pc = "called"]
    /\ UNCHANGED <<listener, minimumLogLevel, config, handlerVars, logVars, marshal, gen, pureVars>>

\* Token copy, case l.tokens <- struct{}{}: there is room in the channel; Accept
\* returns a stdioCloser on the process's stdio.
AcceptToken(a) ==
    /\ build = "string-key"
    /\ accept[a].pc = "called"
    /\ listener.tokens < listener.capacity
    /\ listener' = [listener EXCEPT !.tokens = @ + 1]
    /\ accept' = [accept EXCEPT ![a].pc = "returned", ![a].conn = TRUE]
    /\ UNCHANGED <<minimumLogLevel, config, handlerVars, logVars, marshal, gen, pureVars>>

\* Token copy, case <-ctx.Done(): Accept returns ctx.Err().
AcceptCtxDone(a) ==
    /\ build = "string-key"
    /\ accept[a].pc = "called"
    /\ listener.ctxDone
    /\ accept' = [accept EXCEPT ![a].pc = "returned", ![a].err = "context canceled"]
    /\ UNCHANGED <<listener, minimumLogLevel, config, handlerVars, logVars, marshal, gen, pureVars>>

\* Flag copy: l.accepted.CompareAndSwap(false, true) decides.
AcceptCompareAndSwap(a) ==
    /\ build = "id-key"
    /\ accept[a].pc = "called"
    /\ listener' = [listener EXCEPT !.accepted = TRUE]
    /\ accept' = [accept EXCEPT
                    ![a].pc = "returned",
                    ![a].conn = ~listener.accepted,
                    ![a].err = IF listener.accepted
                               THEN "stdio listener can only accept a single connection"
                               ELSE ""]
    /\ UNCHANGED <<minimumLogLevel, config, handlerVars, logVars, marshal, gen, pureVars>>

\* The connection an Accept returned is closed.  stdioCloser declares no Close
\* method, so Close is the one promoted from the embedded stdio, which closes the
\* two streams; the func in the close field, the only receive from l.tokens, is
\* never called.
CloseConn(a) ==
    /\ accept[a].pc = "returned"
    /\ accept[a].conn
    /\ ~accept[a].closed
    /\ accept' = [accept EXCEPT ![a].closed = TRUE]
    /\ UNCHANGED <<listener, minimumLogLevel, config, handlerVars, logVars, marshal, gen, pureVars>>

\* The context the Accept calls were made with is cancelled.
CancelAcceptContext ==
    /\ ~listener.ctxDone
    /\ listener' = [listener EXCEPT !.ctxDone = TRUE]
    /\ UNCHANGED <<accept, minimumLogLevel, config, handlerVars, logVars, marshal, gen, pureVars>>

(***************************************************************************)
(* The code generator: Generate, getEnumFields, getEnumType and the enum   *)
(* part of generateToolHandlers.  Go strings are sequences of characters   *)
(* here, so that they can be split, re-cased and ordered.                  *)
(***************************************************************************)
\* The characters names and values are written in, in byte order.
Chars ==
    << " ", "-", ".", "0", "1", "2", "3", "4", "5", "6", "7", "8", "9", ";",
       "A", "B", "C", "D", "E", "F", "G", "H", "I", "J", "K", "L", "M", "N", "O", "P",
       "Q", "R", "S", "T", "U", "V", "W", "X", "Y", "Z", "_",
       "a", "b", "c", "d", "e", "f", "g", "h", "i", "j", "k", "l", "m", "n", "o", "p",
       "q", "r", "s", "t", "u", "v", "w", "x", "y", "z" >>
Ord(ch) == CHOOSE i \in DOMAIN Chars : Chars[i] = ch
IsUpper(ch) == Ord("A") <= Ord(ch) /\ Ord(ch) <= Ord("Z")
IsLower(ch) == Ord("a") <= Ord(ch) /\ Ord(ch) <= Ord("z")
IsDigit(ch) == Ord("0") <= Ord(ch) /\ Ord(ch) <= Ord("9")
ToUpper(ch) == IF IsLower(ch) THEN Chars[Ord(ch) - Ord("a") + Ord("A")] ELSE ch
ToLower(ch) == IF IsUpper(ch) THEN Chars[Ord(ch) - Ord("A") + Ord("a")] ELSE ch

\* strings.Compare(a, b)
RECURSIVE Compare(_, _)
Compare(a, b) ==
    IF a = <<>> THEN (IF b = <<>> THEN 0 ELSE -1)
    ELSE IF b = <<>> THEN 1
    ELSE IF Ord(a[1]) < Ord(b[1]) THEN -1
    ELSE IF Ord(a[1]) > Ord(b[1]) THEN 1
    ELSE Compare(Tail(a), Tail(b))

\* strconv.Itoa(n)
RECURSIVE Itoa(_)
Itoa(n) ==
    IF n < 0 THEN <<"-">> \o Itoa(0 - n)
    ELSE IF n < 10 THEN <<Digit[n + 1]>>
    ELSE Itoa(n \div 10) \o <<Digit[(n % 10) + 1]>>

\* An enum value as json.Unmarshal leaves it in []any: a string, or a float64.  The
\* numbers are kept in tenths: 15 is 1.5, -10 is -1.
EnumString(text) == [t |-> "string", s |-> text, tenths |-> 0]
EnumNumber(tenths) == [t |-> "float64", s |-> <<>>, tenths |-> tenths]
Abs(n) == IF n < 0 THEN 0 - n ELSE n

\* int(floatVal): the conversion truncates toward zero.
IntOf(val) == IF val.tenths < 0 THEN 0 - (Abs(val.tenths) \div 10) ELSE val.tenths \div 10
\* floatVal == float64(int(floatVal))
IsIntegerValued(val) == val.tenths = IntOf(val) * 10

\* fmt.Sprintf("%v", val)
Sprint(val) ==
    IF val.t = "string" THEN val.s
    ELSE IF IsIntegerValued(val) THEN Itoa(IntOf(val))
    ELSE (IF val.tenths < 0 THEN <<"-">> ELSE <<>>)
         \o Itoa(Abs(val.tenths) \div 10) \o <<".">> \o <<Digit[(Abs(val.tenths) % 10) + 1]>>

\* strings.NewReplacer(";", "_", " ", "").Replace(name)
Replace(name) ==
    SelectSeq([i \in DOMAIN name |-> IF name[i] = ";" THEN "_" ELSE name[i]],
              LAMBDA ch : ch # " ")

\* strings.Split(name, "_")
RECURSIVE Split(_)
Split(name) ==
    IF \A i \in DOMAIN name : name[i] # "_" THEN <<name>>
    ELSE LET at == CHOOSE i \in DOMAIN name :
                       name[i] = "_" /\ \A j \in 1..(i - 1) : name[j] # "_"
         IN  <<SubSeq(name, 1, at - 1)>> \o Split(SubSeq(name, at + 1, Len(name)))

\* cases.Title(language.Und).String(word): the first letter of the word, and the
\* first letter after a hyphen, in upper case, every other letter in lower case.
Title(word) ==
    [i \in DOMAIN word |->
        IF i = 1 \/ word[i - 1] = "-" THEN ToUpper(word[i]) ELSE ToLower(word[i])]

\* strings.Join(words, "")
RECURSIVE Join(_)
Join(words) == IF words = <<>> THEN <<>> ELSE Head(words) \o Join(Tail(words))

pascalCase(name) ==
    LET words == Split(Replace(name))
    IN  Join([i \in DOMAIN words |-> Title(words[i])])

\* getEnumType: "int" when every value is a float64 with an integer value.
getEnumType(enumValues) ==
    IF \A i \in DOMAIN enumValues :
          enumValues[i].t = "float64" /\ IsIntegerValued(enumValues[i])
    THEN "int"
    ELSE "string"

\* The comparison functions handed to the sorts: of field names (slices.Sort), of
\* int enum values (aVal - bVal) and of the other enum values (strings.Compare of
\* their %v texts).
SortCompare(mode, a, b) ==
    IF mode = "names" THEN Compare(a, b)
    ELSE IF mode = "int" THEN IntOf(a) - IntOf(b)
    ELSE Compare(Sprint(a), Sprint(b))

\* slices.SortFunc on a short slice: insertion sort.
RECURSIVE InsertSorted(_, _, _)
InsertSorted(mode, sorted, x) ==
    IF sorted = <<>> THEN <<x>>
    ELSE IF SortCompare(mode, x, sorted[Len(sorted)]) < 0
    THEN Append(InsertSorted(mode, SubSeq(sorted, 1, Len(sorted) - 1), x),
                sorted[Len(sorted)])
    ELSE Append(sorted, x)
RECURSIVE SortFunc(_, _)
SortFunc(mode, slice) ==
    IF slice = <<>> THEN <<>>
    ELSE InsertSorted(mode, SortFunc(mode, SubSeq(slice, 1, Len(slice) - 1)),
                      slice[Len(slice)])

\* Mutant: the field names are left in the order the map was ranged over.
SortFieldNamesKeepOrder(fieldNames) == fieldNames

\* slices.Sort(fieldNames)
SortFieldNames(fieldNames) == SortFunc("names", fieldNames)

\* A tool of the definition: its name and the fields of its InputSchema struct in
\* declaration order, each with its json tag and its enum values (none: <<>>).
Field(tag, enum) == [tag |-> tag, enum |-> enum]
ToolDef(name, fields) == [name |-> name, fields |-> fields]

\* getEnumFields(tool): the map from property name to enum values, for the
\* properties that carry a non-empty enum.
getEnumFields(tool) ==
    LET tags == {tool.fields[i].tag : i \in {j \in DOMAIN tool.fields :
                                                  Len(tool.fields[j].enum) > 0}}
    IN  [tag \in tags |->
            tool.fields[CHOOSE i \in DOMAIN tool.fields : tool.fields[i].tag = tag].enum]

\* One line of the generated source, by its tokens.
Line(kind, name, type, underlying, value) ==
    [kind |-> kind, name |-> name, type |-> type, underlying |-> underlying, value |-> value]

EnumTypeName(toolName, fieldName) ==
    toolName \o pascalCase(fieldName) \o <<"T", "y", "p", "e">>

\* The type definition and the const block of one enum field.
EnumDecl(toolName, fieldName, enumValues) ==
    LET enumTypeName == EnumTypeName(toolName, fieldName)
        enumType == getEnumType(enumValues)
        sortedEnumValues == SortFunc(enumType, enumValues)
        const(val) ==
            Line("const", enumTypeName \o pascalCase(Sprint(val)), enumTypeName, enumType,
                 IF enumType = "int" THEN Itoa(IntOf(val))
                 ELSE <<"\"">> \o Sprint(val) \o <<"\"">>)
    IN  <<Line("type", enumTypeName, <<>>, enumType, <<>>)>>
        \o [i \in DOMAIN sortedEnumValues |-> const(sortedEnumValues[i])]

\* The request struct of a tool: one field per struct member, in declaration order.
RequestStruct(tool) ==
    LET toolName == pascalCase(tool.name)
    IN  [i \in DOMAIN tool.fields |->
            IF tool.fields[i].tag \in DOMAIN getEnumFields(tool)
            THEN Line("field", tool.fields[i].tag,
                      EnumTypeName(toolName, tool.fields[i].tag), "", <<>>)
            ELSE Line("field", tool.fields[i].tag, <<>>, "builtin", <<>>)]

\* What generateToolHandlers prints for one tool, given the sorted field names.
RECURSIVE EnumDecls(_, _)
EnumDecls(tool, fieldNames) ==
    IF fieldNames = <<>> THEN <<>>
    ELSE EnumDecl(pascalCase(tool.name), Head(fieldNames), getEnumFields(tool)[Head(fieldNames)])
         \o EnumDecls(tool, Tail(fieldNames))
ToolDecls(tool, fieldNames) == EnumDecls(tool, fieldNames) \o RequestStruct(tool)

\* A Go identifier: a letter or underscore, then letters, digits and underscores.
IsIdentifier(name) ==
    /\ name # <<>>
    /\ ~IsDigit(name[1])
    /\ \A i \in DOMAIN name : IsUpper(name[i]) \/ IsLower(name[i]) \/ IsDigit(name[i])
                               \/ name[i] = "_"

\* imports.Process parses the buffer: it fails on a declared name that is not an
\* identifier; otherwise the tokens of every line come out as they went in.
ParseOK(buf) ==
    \A i \in DOMAIN buf : buf[i].kind \in {"type", "const"} => IsIdentifier(buf[i].name)

\* The definitions the generator is run on.
DefUnits ==
    << ToolDef(<<"c", "o", "n", "v", "e", "r", "t">>,
               << Field(<<"t", "e", "m", "p", "e", "r", "a", "t", "u", "r", "e">>, <<>>),
                  Field(<<"t", "o", "_", "u", "n", "i", "t">>, <<EnumString(<<"f">>), EnumString(<<"c">>)>>),
                  Field(<<"f", "r", "o", "m", "_", "u", "n", "i", "t">>, <<EnumString(<<"f">>), EnumString(<<"c">>)>>) >>) >>
DefLevels ==
    << ToolDef(<<"s", "e", "t">>,
               << Field(<<"m", "o", "d", "e">>, <<EnumString(<<"b">>), EnumString(<<"a">>)>>),
                  Field(<<"l", "e", "v", "e", "l">>, <<EnumNumber(30), EnumNumber(10), EnumNumber(20)>>) >>) >>
DefMixed ==
    << ToolDef(<<"m", "i", "x">>,
               << Field(<<"m", "o", "d", "e">>, <<EnumString(<<"b">>), EnumString(<<"a">>)>>),
                  Field(<<"k", "e", "y">>, <<EnumString(<<"a">>), EnumNumber(10)>>) >>) >>
DefFraction ==
    << ToolDef(<<"s", "c", "a", "l", "e">>,
               << Field(<<"r", "a", "t", "i", "o">>, <<EnumNumber(20), EnumNumber(15)>>),
                  Field(<<"m", "o", "d", "e">>, <<EnumString(<<"a">>)>>) >>) >>
DefNegative ==
    << ToolDef(<<"s", "h", "i", "f", "t">>,
               << Field(<<"o", "f", "f", "s", "e", "t">>, <<EnumNumber(10), EnumNumber(-10)>>),
                  Field(<<"m", "o", "d", "e">>, <<EnumString(<<"a">>)>>) >>) >>
DefTwoTools == DefLevels \o DefUnits
ServerDefinitions == {DefUnits, DefLevels, DefMixed, DefFraction, DefNegative, DefTwoTools}

\* Two independent invocations of Generate.
Invocations == {"first", "second"}

\* One invocation: the definition, the tool being generated, the field names in the
\* order the map range delivered them, g.buf, and what Generate wrote and returned.
NewGenerate(def) ==
    [pc |-> "ranging", def |-> def, tool |-> 1, ranged |-> <<>>, fieldNames |-> <<>>,
     buf |-> <<>>, out |-> <<>>, err |-> ""]
IdleGenerate == [NewGenerate(<<>>) EXCEPT !.pc = "idle"]
GenIdle == gen = [g \in Invocations |-> IdleGenerate]

\* No pascalCase call and no level conversion is being made.
IdleNaming == [pc |-> "idle", name |-> <<>>, out |-> <<>>]
IdleLeveling == [pc |-> "idle", given |-> "", level |-> 0, name |-> ""]
PureIdle == naming = IdleNaming /\ leveling = IdleLeveling

PeripheryIdle == LogIdle /\ MarshalIdle /\ ListenerIdle /\ GenIdle /\ PureIdle

HandlerIdle ==
    /\ Implementation = ServerImplementation
    /\ subscribedResources = {}
    /\ cancelFuncByRequestID = {}
    /\ call = [s \in Slots |-> IdleCall]
    /\ ctxDone = [s \in Slots |-> FALSE]


(***************************************************************************)
(* Actions.                                                                *)
(***************************************************************************)
Init ==
    /\ Capabilities \in SUBSET AllCapabilities
    /\ HandlerIdle
    /\ minimumLogLevel = 0
    /\ build \in Builds
    /\ PeripheryIdle

\* Handle is entered: cctx, cancel := context.WithCancel(ctx); Store(id, cancel).
\* The lowest free slot is taken, unless a loaded cancel function of it is still to
\* be called; a client does not reuse the ID of a request in flight.
Begin(s, r) ==
    /\ ~Crashed
    /\ call[s].pc = "idle"
    /\ \A t \in Slots : t < s => call[t].pc # "idle"
    /\ \A t \in Slots : ~(call[t].pc = "cancelling" /\ call[t].v = s)
    /\ r.id.t # "nil" => \A t \in Slots : InFlight(t) => call[t].id # r.id
    /\ call' = [t \in Slots |->
                  IF t = s
                  THEN [IdleCall EXCEPT !.pc = "started", !.method = r.method, !.id = r.id,
                                        !.params = r.params,
                                        !.peers = {u \in Slots : InFlight(u)}]
                  ELSE [call[t] EXCEPT !.peers = @ \ {s}]]
    /\ ctxDone' = [ctxDone EXCEPT ![s] = FALSE]
    /\ cancelFuncByRequestID' = Store(cancelFuncByRequestID, RegistryKey(r.id), s)
    /\ UNCHANGED <<config, periphery, subscribedResources, minimumLogLevel>>

\* The method switch runs, up to its return or its call into user code.
Dispatch(s) ==
    /\ ~Crashed
    /\ call[s].pc = "started"
    /\ \E key \in CancelKeys(call[s]) :
          /\ call' = [call EXCEPT ![s] = HandleSwitch(call[s], key)]
          /\ cancelFuncByRequestID' = RegistryAfter(call[s], key)
    /\ subscribedResources' = SubscribedAfter(call[s])
    /\ minimumLogLevel' = LevelAfter(call[s])
    /\ UNCHANGED <<config, periphery, ctxDone>>

\* notifications/cancelled calls the cancel function it loaded, and returns.
FireCancel(s) ==
    /\ ~Crashed
    /\ call[s].pc = "cancelling"
    /\ ctxDone' = [ctxDone EXCEPT ![call[s].v] = TRUE]
    /\ call' = [call EXCEPT ![s] = Finish(call[s], ReplyNil, NoErr)]
    /\ UNCHANGED <<config, periphery, subscribedResources, minimumLogLevel, cancelFuncByRequestID>>

\* Mutant: a result with IsError set is turned into an error of Handle.
AfterUserHandlerIsErrorFails(c, res, err) ==
    IF err # "" \/ res.isError
    THEN Finish(c, ReplyNil, ErrFailedToHandle("tool error"))
    ELSE Finish(c, res, NoErr)

\* What Handle returns once the user handler has returned (res, err).
AfterUserHandler(c, res, err) ==
    IF err # ""
    THEN Finish(c, ReplyNil, ErrFailedToHandle(err))
    ELSE Finish(c, res, NoErr)

\* The user handler returns.
UserHandlerReturn(s) ==
    /\ ~Crashed
    /\ call[s].pc = "inHandler"
    /\ \E out \in UserOutcomes(call[s].handler) :
          call' = [call EXCEPT ![s] = [AfterUserHandler(call[s], out[1], out[2])
                                          EXCEPT !.userRes = out[1], !.userErr = out[2]]]
    /\ UNCHANGED <<config, periphery, subscribedResources, minimumLogLevel, cancelFuncByRequestID, ctxDone>>

\* Mutant: Handle returns without the deferred Delete.
DeferredDeleteSkipped(c) == cancelFuncByRequestID

\* h.cancelFuncByRequestID after the deferred call of Handle.
DeferredDelete(c) == Delete(cancelFuncByRequestID, RegistryKey(c.id))

\* The child context's state after Handle has returned.
ContextAfterReturn(s) == ctxDone[s]

\* Handle returns: the deferred Delete runs and the caller gets (reply, err).
Return(s) ==
    /\ ~Crashed
    /\ call[s].pc = "returning"
    /\ cancelFuncByRequestID' = DeferredDelete(call[s])
    /\ ctxDone' = [ctxDone EXCEPT ![s] = ContextAfterReturn(s)]
    /\ call' = [call EXCEPT ![s].pc = "done"]
    /\ UNCHANGED <<config, periphery, subscribedResources, minimumLogLevel>>

\* The caller has taken (reply, err); the invocation is over.
Recycle(s) ==
    /\ ~Crashed
    /\ call[s].pc = "done"
    /\ call' = [call EXCEPT ![s] = IdleCall]
    /\ ctxDone' = [ctxDone EXCEPT ![s] = FALSE]
    /\ UNCHANGED <<config, periphery, subscribedResources, minimumLogLevel, cancelFuncByRequestID>>

\* jsonrpc2 without a preempter hands Handle one request at a time.
BeginNext(r) ==
    /\ \A t \in Slots : call[t].pc = "idle"
    /\ Begin(1, r)

Next ==
    \/ \E r \in Requests : BeginNext(r)
    \/ \E s \in Slots : Dispatch(s)
    \/ \E s \in Slots : FireCancel(s)
    \/ \E s \in Slots : UserHandlerReturn(s)
    \/ \E s \in Slots : Return(s)
    \/ \E s \in Slots : Recycle(s)

Spec == Init /\ [][Next]_vars

(***************************************************************************)
(* Handle invocations running concurrently (a preempter, or handlers that  *)
(* answer asynchronously), on the requests that cancellation is about.     *)
(***************************************************************************)
RequestIDs ==
    {Int64ID(7), Int64ID(12), Int64ID(-3), StringID("7"), StringID("abc"), StringID("<nil>")}

ConcurrentRequests ==
    {Request(MethodToolsCall, id, ValidConvert) : id \in RequestIDs}
    \cup {Request(MethodResourcesList, Int64ID(7), Obj({<<"cursor", JStr("c1")>>}))}
    \cup {Request(MethodNotificationsCancelled, NoID, Obj({<<"requestId", JStr(k)>>})) :
            k \in {"7", "12", "-3", "abc", Quoted("abc"), "<nil>", "zzz"}}

InitConcurrent ==
    /\ Capabilities = AllCapabilities
    /\ HandlerIdle
    /\ minimumLogLevel = 0
    /\ build \in Builds
    /\ PeripheryIdle

NextConcurrent ==
    \/ \E s \in Slots, r \in ConcurrentRequests : Begin(s, r)
    \/ \E s \in Slots : Dispatch(s)
    \/ \E s \in Slots : FireCancel(s)
    \/ \E s \in Slots : UserHandlerReturn(s)
    \/ \E s \in Slots : Return(s)
    \/ \E s \in Slots : Recycle(s)

SpecConcurrent == InitConcurrent /\ [][NextConcurrent]_vars

\* The same invocations on the requests whose registry keys meet: the IDs 7 and
\* "7", and the notifications that name them or nothing.
RegistryRequests ==
    {Request(MethodToolsCall, id, ValidConvert) : id \in {Int64ID(7), StringID("7")}}
    \cup {Request(MethodNotificationsCancelled, NoID, Obj({<<"requestId", JStr(k)>>})) :
            k \in {"7", "zzz"}}

NextRegistry ==
    \/ \E s \in Slots, r \in RegistryRequests : Begin(s, r)
    \/ \E s \in Slots : Dispatch(s)
    \/ \E s \in Slots : FireCancel(s)
    \/ \E s \in Slots : UserHandlerReturn(s)
    \/ \E s \in Slots : Return(s)
    \/ \E s \in Slots : Recycle(s)

SpecRegistry == InitConcurrent /\ [][NextRegistry]_vars

(***************************************************************************)
(* The stdio transport's outbound stream: log emissions from any goroutine *)
(* holding a Logger, logging/setLevel, and replies through the framer.     *)
(***************************************************************************)
\* The Write calls on os.Stdout so far, and those that what is in progress will make.
WritesCommitted ==
    Len(stdout)
    + Cardinality({e \in Emitters : emit[e].pc \in {"enabled", "locked", "formatted", "taken"}})
    + (IF replyWrite.pc = "message" THEN 1 ELSE 0)

\* logger.Log(level, msg): the Enabled check, before any handler code runs.
LogCall(e, h, level) ==
    /\ emit[e].pc = "idle"
    /\ WritesCommitted < MaxWrites
    /\ emit' = [emit EXCEPT ![e] = [pc |-> IF Enabled(level) THEN "enabled" ELSE "dropped",
                                    h |-> h, level |-> level, msg |-> Message(e),
                                    data |-> <<>>]]
    /\ UNCHANGED <<stdout, logBuf, logMu, replyWrite, minimumLogLevel, config, handlerVars, offline>>

\* Mutant: Handle does not take the mutex.
MutexFreeNoLock(h) == TRUE

\* s.mu.Lock() can proceed.
MutexFree(h) == logMu[h] = ""

\* logHandler.Handle: s.mu.Lock().
LogLock(e) ==
    /\ emit[e].pc = "enabled"
    /\ MutexFree(emit[e].h)
    /\ logMu' = [logMu EXCEPT ![emit[e].h] = e]
    /\ emit' = [emit EXCEPT ![e].pc = "locked"]
    /\ UNCHANGED <<stdout, logBuf, replyWrite, minimumLogLevel, config, handlerVars, offline>>

\* logHandler.Handle: s.Handler.Handle(ctx, r) formats the record into buf.
LogFormat(e) ==
    /\ emit[e].pc = "locked"
    /\ logBuf' = [logBuf EXCEPT ![emit[e].h] = Append(@, Formatted(emit[e].msg))]
    /\ emit' = [emit EXCEPT ![e].pc = "formatted"]
    /\ UNCHANGED <<stdout, logMu, replyWrite, minimumLogLevel, config, handlerVars, offline>>

\* logHandler.Handle: data := s.buf.String(); s.buf.Reset().
LogTake(e) ==
    /\ emit[e].pc = "formatted"
    /\ emit' = [emit EXCEPT ![e].pc = "taken", ![e].data = logBuf[emit[e].h]]
    /\ logBuf' = [logBuf EXCEPT ![emit[e].h] = <<>>]
    /\ UNCHANGED <<stdout, logMu, replyWrite, minimumLogLevel, config, handlerVars, offline>>

\* logHandler.Handle: s.encoder.Encode(...) makes one Write on the log writer, and
\* the deferred Unlock runs.
LogEncode(e) ==
    /\ emit[e].pc = "taken"
    /\ stdout' = IF LogWriter = "os.Stdout"
                 THEN Append(stdout,
                             Written("log", levelNameForLogging(emit[e].level), emit[e].h,
                                     emit[e].data, TRUE,
                                     [msg |-> emit[e].msg, level |-> emit[e].level],
                                     minimumLogLevel))
                 ELSE stdout
    /\ logMu' = [logMu EXCEPT ![emit[e].h] = ""]
    /\ emit' = [emit EXCEPT ![e].pc = "written"]
    /\ UNCHANGED <<logBuf, replyWrite, minimumLogLevel, config, handlerVars, offline>>

\* The slog call returns.
LogReturn(e) ==
    /\ emit[e].pc \in {"written", "dropped"}
    /\ emit' = [emit EXCEPT ![e] = IdleEmit]
    /\ UNCHANGED <<stdout, logBuf, logMu, replyWrite, minimumLogLevel, config, handlerVars, offline>>

\* A logging/setLevel request is handled: minimumLogLevel.Set(slog.Level(params.Level)).
SetLevel(name) ==
    /\ minimumLogLevel' =
          LevelAfter(Request(MethodLoggingSetLevel, Int64ID(7), Obj({<<"level", JStr(name)>>})))
    /\ UNCHANGED <<logVars, config, handlerVars, offline>>

\* framerWriter.Write: w.Writer.Write(ctx, msg) puts the message on os.Stdout.
ReplyMessage ==
    /\ replyWrite.pc = "idle"
    /\ WritesCommitted + 1 < MaxWrites
    /\ stdout' = Append(stdout, ReplyBytes)
    /\ replyWrite' = [pc |-> "message"]
    /\ UNCHANGED <<emit, logBuf, logMu, minimumLogLevel, config, handlerVars, offline>>

\* framerWriter.Write: w.rw.Write([]byte("\n")).
ReplyNewline ==
    /\ replyWrite.pc = "message"
    /\ stdout' = Append(stdout, NewlineByte)
    /\ replyWrite' = IdleReplyWrite
    /\ UNCHANGED <<emit, logBuf, logMu, minimumLogLevel, config, handlerVars, offline>>

\* The first emitter is the dispatcher, with its own Logger; any other goroutine
\* logs through that Logger (or one derived from it), or through a Logger of its own.
LoggersOf(e) == IF e = "Handle" THEN {"go-mcp"} ELSE LogHandlers

InitLog ==
    /\ Capabilities \in {AllCapabilities, AllCapabilities \ {"logging"}}
    /\ HandlerIdle
    /\ minimumLogLevel = 0
    /\ build = "string-key"
    /\ PeripheryIdle

NextLog ==
    \/ \E e \in Emitters : \E h \in LoggersOf(e), level \in RecordLevels : LogCall(e, h, level)
    \/ \E e \in Emitters : LogLock(e)
    \/ \E e \in Emitters : LogFormat(e)
    \/ \E e \in Emitters : LogTake(e)
    \/ \E e \in Emitters : LogEncode(e)
    \/ \E e \in Emitters : LogReturn(e)
    \/ \E name \in {"warning", "info", "loud"} : SetLevel(name)
    \/ ReplyMessage
    \/ ReplyNewline

SpecLog == InitLog /\ [][NextLog]_vars

\* io.Copy(encoder, r): one Read of the stream delivers n bytes, which are written
\* to the encoder.
CopyRead(n) ==
    /\ marshal.pc = "copying"
    /\ n \in 1..Len(marshal.rest)
    /\ marshal' = [marshal EXCEPT
                     !.encoder = EncoderWrite(marshal.encoder, SubSeq(marshal.rest, 1, n)),
                     !.rest = SubSeq(marshal.rest, n + 1, Len(marshal.rest))]
    /\ UNCHANGED <<minimumLogLevel, config, handlerVars, logVars, listenerVars, gen, pureVars>>

\* The stream is at its end: io.Copy returns nil.  The encoder is not closed.
CopyEOF ==
    /\ marshal.pc = "copying"
    /\ marshal.rest = <<>>
    /\ marshal' = [marshal EXCEPT !.pc = "copied"]
    /\ UNCHANGED <<minimumLogLevel, config, handlerVars, logVars, listenerVars, gen, pureVars>>

\* json.Marshal of the struct whose Data is buf.String().
MarshalStruct ==
    /\ marshal.pc = "copied"
    /\ marshal' = [marshal EXCEPT !.pc = "done", !.data = marshal.encoder.out]
    /\ UNCHANGED <<minimumLogLevel, config, handlerVars, logVars, listenerVars, gen, pureVars>>

\* MarshalJSON of every content type on every payload, the stream delivered in
\* reads of any size.
InitMarshal ==
    /\ HandlerIdle
    /\ minimumLogLevel = 0
    /\ Capabilities = AllCapabilities
    /\ build = "string-key"
    /\ LogIdle
    /\ ListenerIdle
    /\ GenIdle
    /\ PureIdle
    /\ \E type \in ContentTypes, payload \in Payloads : marshal = NewMarshal(type, payload)

NextMarshal ==
    \/ \E n \in 1..MaxPayload : CopyRead(n)
    \/ CopyEOF
    \/ MarshalStruct

SpecMarshal == InitMarshal /\ [][NextMarshal]_vars

\* Accept calls on the listener of either copy, with every MaxConns option.
InitAccept ==
    /\ HandlerIdle
    /\ minimumLogLevel = 0
    /\ Capabilities = AllCapabilities
    /\ build \in Builds
    /\ LogIdle
    /\ MarshalIdle
    /\ GenIdle
    /\ PureIdle
    /\ \E maxConns \in MaxConnsOptions : listener = NewStdioListener(maxConns)
    /\ accept = [a \in Acceptors |-> IdleAccept]

NextAccept ==
    \/ \E a \in Acceptors : AcceptCall(a)
    \/ \E a \in Acceptors : AcceptToken(a)
    \/ \E a \in Acceptors : AcceptCtxDone(a)
    \/ \E a \in Acceptors : AcceptCompareAndSwap(a)
    \/ \E a \in Acceptors : CloseConn(a)
    \/ CancelAcceptContext

SpecAccept == InitAccept /\ [][NextAccept]_vars

\* for fieldName := range enumFields: the range delivers a key it has not delivered
\* yet, in an order the runtime chooses.
RangeEnumFields(g) ==
    /\ gen[g].pc = "ranging"
    /\ \E fieldName \in DOMAIN getEnumFields(gen[g].def[gen[g].tool]) :
          /\ \A i \in DOMAIN gen[g].ranged : gen[g].ranged[i] # fieldName
          /\ gen' = [gen EXCEPT ![g].ranged = Append(@, fieldName)]
    /\ UNCHANGED <<minimumLogLevel, config, handlerVars, logVars, marshal, listenerVars, pureVars>>

\* The range is over: the field names are sorted.
EndRange(g) ==
    /\ gen[g].pc = "ranging"
    /\ Len(gen[g].ranged) = Cardinality(DOMAIN getEnumFields(gen[g].def[gen[g].tool]))
    /\ gen' = [gen EXCEPT ![g].fieldNames = SortFieldNames(gen[g].ranged),
                          ![g].pc = "printing"]
    /\ UNCHANGED <<minimumLogLevel, config, handlerVars, logVars, marshal, listenerVars, pureVars>>

\* The enum types, their constants and the request struct of the tool are printed;
\* the loop goes on to the next tool of the definition.
PrintTool(g) ==
    /\ gen[g].pc = "printing"
    /\ gen' = [gen EXCEPT
                 ![g].buf = @ \o ToolDecls(gen[g].def[gen[g].tool], gen[g].fieldNames),
                 ![g].tool = IF gen[g].tool < Len(gen[g].def) THEN @ + 1 ELSE @,
                 ![g].ranged = IF gen[g].tool < Len(gen[g].def) THEN <<>> ELSE @,
                 ![g].pc = IF gen[g].tool < Len(gen[g].def) THEN "ranging" ELSE "printed"]
    /\ UNCHANGED <<minimumLogLevel, config, handlerVars, logVars, marshal, listenerVars, pureVars>>

\* imports.Process, then w.Write: the output, or the error Generate returns.
ProcessAndWrite(g) ==
    /\ gen[g].pc = "printed"
    /\ gen' = [gen EXCEPT
                 ![g].pc = "done",
                 ![g].out = IF ParseOK(gen[g].buf) THEN gen[g].buf ELSE <<>>,
                 ![g].err = IF ParseOK(gen[g].buf) THEN "" ELSE "syntax error"]
    /\ UNCHANGED <<minimumLogLevel, config, handlerVars, logVars, marshal, listenerVars, pureVars>>

\* Generate is invoked twice on the same definition.
InitGenerate ==
    /\ HandlerIdle
    /\ minimumLogLevel = 0
    /\ Capabilities = AllCapabilities
    /\ build = "string-key"
    /\ LogIdle
    /\ MarshalIdle
    /\ ListenerIdle
    /\ PureIdle
    /\ \E def \in ServerDefinitions : gen = [g \in Invocations |-> NewGenerate(def)]

NextGenerate ==
    \/ \E g \in Invocations : RangeEnumFields(g)
    \/ \E g \in Invocations : EndRange(g)
    \/ \E g \in Invocations : PrintTool(g)
    \/ \E g \in Invocations : ProcessAndWrite(g)

SpecGenerate == InitGenerate /\ [][NextGenerate]_vars

(***************************************************************************)
(* pascalCase on the names a server definition can carry.                  *)
(***************************************************************************)
MaxNameLen == 5
\* The characters of a wire name: two letters, the joiners and the space.
NameLetters == {"g", "w"}
Joiners == {"_", ";", "-"}
NameChars == NameLetters \cup Joiners \cup {" "}
\* Snake and kebab names: words of letters, one joiner between two words, spaces
\* anywhere inside.
WireNames ==
    {name \in SeqsUpTo(NameChars, MaxNameLen) :
        /\ name # <<>>
        /\ name[1] \in NameLetters
        /\ name[Len(name)] \in NameLetters
        /\ \A i \in 1..(Len(name) - 1) : ~(name[i] \in Joiners /\ name[i + 1] \in Joiners)}

\* pascalCase(name) is called and returns.
PascalCaseReturn ==
    /\ naming.pc = "called"
    /\ naming' = [naming EXCEPT !.pc = "returned", !.out = pascalCase(naming.name)]
    /\ UNCHANGED <<minimumLogLevel, config, handlerVars, logVars, marshal, listenerVars,
                   gen, leveling>>

InitPascal ==
    /\ HandlerIdle
    /\ minimumLogLevel = 0
    /\ Capabilities = AllCapabilities
    /\ build = "string-key"
    /\ LogIdle
    /\ MarshalIdle
    /\ ListenerIdle
    /\ GenIdle
    /\ leveling = IdleLeveling
    /\ \E name \in WireNames : naming = [pc |-> "called", name |-> name, out |-> <<>>]

NextPascal == PascalCaseReturn

SpecPascal == InitPascal /\ [][NextPascal]_vars

(***************************************************************************)
(* The two conversions between a log level and its name.                   *)
(***************************************************************************)
LevelSpan == 30
Levels == (0 - LevelSpan)..LevelSpan
LevelNames ==
    {"debug", "info", "notice", "warning", "error", "critical", "alert", "emergency"}

\* LogLevel.UnmarshalJSON parses the given name.
UnmarshalLevel ==
    /\ leveling.pc = "parsing"
    /\ leveling' = [leveling EXCEPT !.pc = "called",
                                    !.level = LogLevelUnmarshalJSON(leveling.given)]
    /\ UNCHANGED <<minimumLogLevel, config, handlerVars, logVars, marshal, listenerVars,
                   gen, naming>>

\* levelNameForLogging(level) is called and returns.
LevelNameReturn ==
    /\ leveling.pc = "called"
    /\ leveling' = [leveling EXCEPT !.pc = "returned",
                                    !.name = levelNameForLogging(leveling.level)]
    /\ UNCHANGED <<minimumLogLevel, config, handlerVars, logVars, marshal, listenerVars,
                   gen, naming>>

\* Either a level is mapped to its name, or a name is parsed and mapped back.
InitLevel ==
    /\ HandlerIdle
    /\ minimumLogLevel = 0
    /\ Capabilities = AllCapabilities
    /\ build = "string-key"
    /\ LogIdle
    /\ MarshalIdle
    /\ ListenerIdle
    /\ GenIdle
    /\ naming = IdleNaming
    /\ \/ \E level \in Levels :
            leveling = [pc |-> "called", given |-> "", level |-> level, name |-> ""]
       \/ \E given \in LevelNames :
            leveling = [pc |-> "parsing", given |-> given, level |-> 0, name |-> ""]

NextLevel ==
    \/ UnmarshalLevel
    \/ LevelNameReturn

SpecLevel == InitLevel /\ [][NextLevel]_vars

(***************************************************************************)
(* Properties.                                                             *)
(***************************************************************************)
Returned(s) == call[s].pc \in {"returning", "done"}

\* C1: an initialize request with decodable params is answered with the proposed
\* protocolVersion when it is "2025-03-26" or "2024-11-05" and with "2025-03-26" for
\* every other proposal (the empty string included); the reply carries the
\* Handler's capabilities and implementation.
C1_VersionNegotiation ==
    \A s \in Slots :
        (/\ call[s].method = MethodInitialize
         /\ Returned(s)
         /\ UnmarshalOK(call[s].params, InitializeRequestParams))
        => LET proposed == StringField(call[s].params, "protocolVersion")
           IN  /\ call[s].err = NoErr
               /\ call[s].reply.kind = "InitializeResult"
               /\ call[s].reply.protocolVersion =
                     IF proposed \in {"2025-03-26", "2024-11-05"} THEN proposed ELSE "2025-03-26"
               /\ call[s].reply.capabilities = Capabilities
               /\ call[s].reply.serverInfo = Implementation

C1_Witness ==
    \E s \in Slots :
        /\ call[s].pc = "done"
        /\ call[s].method = MethodInitialize
        /\ call[s].params = Obj({<<"protocolVersion", JStr("2024-11-05")>>})
        /\ call[s].reply.protocolVersion = "2024-11-05"

\* C2: with no tools entry in the capabilities, tools/list and tools/call return
\* method-not-found for every params value, and no tool handler is entered.
C2_ToolsGated ==
    \A s \in Slots :
        ("tools" \notin Capabilities /\ call[s].method \in {MethodToolsList, MethodToolsCall})
        => /\ call[s].pc # "inHandler"
           /\ Returned(s) => call[s].err = ErrMethodNotFound

\* C3: with no resources entry, resources/list, resources/read and
\* resources/templates/list return method-not-found; with no completions entry,
\* completion/complete returns method-not-found; for every params value, and before
\* any user handler is entered.
C3_ResourcesAndCompletionGated ==
    \A s \in Slots :
        (\/ /\ "resources" \notin Capabilities
            /\ call[s].method \in {MethodResourcesList, MethodResourcesRead,
                                   MethodResourceTemplatesList}
         \/ /\ "completions" \notin Capabilities
            /\ call[s].method = MethodCompletionComplete)
        => /\ call[s].pc # "inHandler"
           /\ Returned(s) => call[s].err = ErrMethodNotFound

\* C4: when the user tool handler returns a CallToolResult with IsError = true and no
\* Go error, Handle returns that result unchanged, with a nil error.
C4_ToolErrorIsAResult ==
    \A s \in Slots :
        (/\ call[s].method = MethodToolsCall
         /\ Returned(s)
         /\ call[s].handler # ""
         /\ call[s].userErr = ""
         /\ call[s].userRes.isError)
        => /\ call[s].err = NoErr
           /\ call[s].reply = call[s].userRes
           /\ call[s].reply.isError
           /\ call[s].reply.content = "tool failed"

C4_Witness ==
    \E s \in Slots :
        /\ call[s].pc = "done"
        /\ call[s].method = MethodToolsCall
        /\ call[s].handler = "HandleTool:convert_temperature"
        /\ call[s].userRes.isError
        /\ call[s].reply.isError
        /\ call[s].err = NoErr

\* The arguments of a tools/call are an object that leaves out a field the named
\* tool's schema requires.
OmitsRequiredField(params) ==
    /\ UnmarshalOK(params, CallToolRequestParams)
    /\ IndexFunc(ToolList, StringField(params, "name")) # 0
    /\ RawField(params, "arguments").val.t = "obj"
    /\ \E f \in SchemaRequired(ToolList[IndexFunc(ToolList, StringField(params, "name"))]) :
          ~Has(RawField(params, "arguments").val, f)

\* C5: a tools/call whose arguments omit a field the tool's input schema requires
\* yields the invalid-params error, and the user tool handler is not entered.
C5_RequiredFieldEnforced ==
    \A s \in Slots :
        (/\ "tools" \in Capabilities
         /\ call[s].method = MethodToolsCall
         /\ call[s].pc # "started"
         /\ OmitsRequiredField(call[s].params))
        => /\ call[s].handler = ""
           /\ Returned(s) => call[s].err = ErrInvalidParams

\* A notifications/cancelled whose params decoded, and the requestId it carries.
IsCancel(c) ==
    /\ c.method = MethodNotificationsCancelled
    /\ UnmarshalOK(c.params, NotificationsCancelledRequestParams)
RequestIdOf(c) == StringField(c.params, "requestId")

\* C6: when a request with ID i is in dispatch and a notifications/cancelled whose
\* requestId is the string form of i has been handled, then once the notification's
\* Handle has returned the request's context is cancelled and the registry holds no
\* entry for i.
C6_CancelReachesInFlight ==
    \A n \in Slots, t \in Slots :
        (/\ call[n].pc = "done"
         /\ IsCancel(call[n])
         /\ t \in call[n].peers
         /\ InFlight(t)
         /\ call[t].id.t # "nil"
         /\ FormatID(call[t].id) = RequestIdOf(call[n]))
        => /\ ctxDone[t]
           /\ <<RegistryKey(call[t].id), t>> \notin cancelFuncByRequestID

\* C7: a notifications/cancelled naming no request in flight is a no-op: the reply
\* is empty with no error, no in-flight request's context becomes cancelled, and the
\* subscription set, the minimum log level and the registry entries of the other
\* in-flight requests stay as they were, at every step of its Handle.
C7_CancelOfNothingIsNoOp ==
    [][\A n \in Slots :
          LET c == IF call[n].pc = "idle" THEN call'[n] ELSE call[n]
          IN  (/\ call'[n] # call[n]
               /\ call[n].pc # "done"
               /\ IsCancel(c)
               /\ c.id = NoID
               /\ \A t \in Slots \ {n} :
                     InFlight(t) => FormatID(call[t].id) # RequestIdOf(c))
              => /\ \A t \in Slots \ {n} :
                       (InFlight(t) /\ call[t].id # NoID) =>
                          /\ ctxDone'[t] = ctxDone[t]
                          /\ <<RegistryKey(call[t].id), t>> \in cancelFuncByRequestID'
                                <=> <<RegistryKey(call[t].id), t>> \in cancelFuncByRequestID
                 /\ subscribedResources' = subscribedResources
                 /\ minimumLogLevel' = minimumLogLevel
                 /\ call'[n].pc \in {"returning", "done"} =>
                       call'[n].reply = ReplyNil /\ call'[n].err = NoErr]_vars

\* The canonical string of each request ID, written out.
CanonicalForms ==
    {<<Int64ID(7), "7">>, <<Int64ID(12), "12">>, <<Int64ID(-3), "-3">>,
     <<StringID("7"), "7">>, <<StringID("abc"), "abc">>, <<StringID("<nil>"), "<nil>">>}
HasCanonicalForm(id, k) == \E q \in CanonicalForms : q[1] = id /\ q[2] = k

\* C8: the key a request is registered under and the key notifications/cancelled
\* looks up are the same for both kinds of ID: when a request holds its registry
\* entry and a notifications/cancelled carries the canonical string of the request's
\* ID (the decimal digits of a number, the string itself), the notification loads
\* and removes that request's cancel function.
C8_SameCanonicalKey ==
    [][\A n \in Slots, t \in Slots :
          (/\ call[n].pc = "started"
           /\ call'[n].pc # "started"
           /\ IsCancel(call[n])
           /\ InFlight(t)
           /\ <<RegistryKey(call[t].id), t>> \in cancelFuncByRequestID
           /\ HasCanonicalForm(call[t].id, RequestIdOf(call[n])))
          => /\ call'[n].pc = "cancelling"
             /\ call'[n].v = t
             /\ <<RegistryKey(call[t].id), t>> \notin cancelFuncByRequestID']_vars

\* C9: when Handle has returned, the child context created for the request is
\* cancelled and the registry holds no entry of the request.
C9_FiredAndRemovedOnReturn ==
    \A s \in Slots :
        (call[s].pc = "done" /\ call[s].err.kind # "panic")
        => /\ ctxDone[s]
           /\ \A p \in cancelFuncByRequestID : p[2] # s

\* C10: handling resources/subscribe(u) leaves u subscribed and handling
\* resources/unsubscribe(u) leaves u unsubscribed, whatever the subscription set was
\* before (so also when repeated); both reply with an empty object and leave every
\* other URI as it was.
C10_SubscribeLaws ==
    [][\A s \in Slots, u \in URIs :
          (/\ call[s].pc = "started"
           /\ call'[s].pc # "started"
           /\ call[s].params = Obj({<<"uri", JStr(u)>>})
           /\ call[s].method \in {MethodResourcesSubscribe, MethodResourcesUnsubscribe})
          => /\ IsSubscribed(u)' = (call[s].method = MethodResourcesSubscribe)
             /\ call'[s].reply = ReplyEmpty
             /\ call'[s].err = NoErr
             /\ \A v \in (URIs \cup subscribedResources \cup subscribedResources') \ {u} :
                   IsSubscribed(v)' = IsSubscribed(v)]_vars

C10_Witness ==
    \E s \in Slots :
        /\ call[s].pc = "done"
        /\ call[s].method = MethodResourcesUnsubscribe
        /\ call[s].params = Obj({<<"uri", JStr("weather://x")>>})
        /\ call[s].reply = ReplyEmpty
        /\ ~IsSubscribed("weather://x")
        /\ IsSubscribed("weather://y")

\* The log frames on the outbound stream, and the frame of a finished emission.
LogFrames == {i \in 1..Len(stdout) : stdout[i].kind = "log"}
FrameOf(e) ==
    Written("log", levelNameForLogging(emit[e].level), emit[e].h,
            <<Formatted(emit[e].msg)>>, TRUE, [msg |-> emit[e].msg, level |-> emit[e].level],
            stdout[Len(stdout)].floor)

\* C11: with logging advertised, a record below warning is never written while the
\* minimum level is warning (that is, once logging/setLevel "warning" has been
\* handled), also when its emission began before the level changed; and a record
\* at warning or above is never dropped.
C11_LevelFilter ==
    "logging" \in Capabilities =>
        /\ \A i \in LogFrames :
              stdout[i].floor = LevelWarning => stdout[i].record.level >= LevelWarning
        /\ \A e \in Emitters : emit[e].level >= LevelWarning => emit[e].pc # "dropped"

C17_NewlineDelimited ==
    "logging" \in Capabilities =>
        \A i \in 1..Len(stdout) :
            (stdout[i].kind = "reply" /\ i < Len(stdout)) => stdout[i + 1].kind = "newline"

\* C18: the loggers of one family share mu and buf: at most one emission is between
\* Lock and Unlock, the data of every emission is the formatted JSON of its own
\* record and nothing else, and the buffer is empty whenever the mutex is free.
C18_BufferSerialised ==
    /\ \A h \in LogHandlers :
          Cardinality({e \in Emitters : emit[e].h = h
                                         /\ emit[e].pc \in {"locked", "formatted", "taken"}}) <= 1
    /\ \A e \in Emitters :
          emit[e].pc \in {"taken", "written"} => emit[e].data = <<Formatted(emit[e].msg)>>
    /\ \A i \in LogFrames : stdout[i].data = <<Formatted(stdout[i].record.msg)>>
    /\ \A h \in LogHandlers : logMu[h] = "" => logBuf[h] = <<>>

C18_Witness ==
    \E e \in Emitters, f \in Emitters :
        /\ e # f
        /\ emit[e].h = emit[f].h
        /\ emit[e].pc = "formatted"
        /\ emit[f].pc = "enabled"
        /\ \E i \in LogFrames : stdout[i].record.msg = emit[f].msg

\* The struct the params of a method are decoded into by Handle.
ParamsStruct(method) ==
    CASE method = MethodInitialize -> InitializeRequestParams
      [] method = MethodPromptsGet -> GetPromptRequestParams
      [] method = MethodResourcesList -> PaginationParams
      [] method = MethodResourcesRead -> ReadResourceRequest
      [] method = MethodResourcesSubscribe -> subscribeResourceRequest
      [] method = MethodResourcesUnsubscribe -> unsubscribeResourceRequest
      [] method = MethodToolsCall -> CallToolRequestParams
      [] method = MethodLoggingSetLevel -> LoggingSetLevelRequestParams
      [] method = MethodNotificationsCancelled -> NotificationsCancelledRequestParams
      [] method = MethodCompletionComplete -> CompleteRequestParams

DecodesParams ==
    {MethodInitialize, MethodPromptsGet, MethodResourcesList, MethodResourcesRead,
     MethodResourcesSubscribe, MethodResourcesUnsubscribe, MethodToolsCall,
     MethodLoggingSetLevel, MethodNotificationsCancelled, MethodCompletionComplete}

\* The arguments of a prompts/get or tools/call name a catalog entry and do not
\* decode into its request record.
ArgumentsFailToDecode(c) ==
    /\ UnmarshalOK(c.params, ParamsStruct(c.method))
    /\ LET name == StringField(c.params, "name")
           arguments == RawField(c.params, "arguments")
       IN  \/ /\ c.method = MethodToolsCall
              /\ ToolHandlerSet
              /\ IndexFunc(ToolList, name) # 0
              /\ ~UnmarshalOK(arguments, ToolRequestFields(ToolList[IndexFunc(ToolList, name)]))
           \/ /\ c.method = MethodPromptsGet
              /\ PromptHandlerSet
              /\ IndexFunc(PromptList, name) # 0
              /\ ~UnmarshalOK(arguments,
                              PromptRequestFields(PromptList[IndexFunc(PromptList, name)]))

\* The params of the request fail to decode, in Handle or in a generated shim, on a
\* server that has the handler the method needs.
ParamsFailToDecode(c) ==
    /\ c.method \in DecodesParams
    /\ c.method \in {MethodResourcesList, MethodResourcesRead} => ResourceHandlerSet
    /\ c.method = MethodCompletionComplete => CompletionHandlerSet
    /\ \/ ~UnmarshalOK(c.params, ParamsStruct(c.method))
       \/ ArgumentsFailToDecode(c)

\* C14: a request whose params fail to decode is answered with the JSON-RPC
\* invalid-params error in the step that dispatches it, no user handler is entered,
\* and the subscription set and the minimum log level stay as they were.
C14_DecodeFailureIsInvalidParams ==
    [][\A s \in Slots :
          (/\ call[s].pc = "started"
           /\ call'[s] # call[s]
           /\ ParamsFailToDecode(call[s]))
          => /\ call'[s].pc = "returning"
             /\ call'[s].err = ErrInvalidParams
             /\ call'[s].handler = ""
             /\ subscribedResources' = subscribedResources
             /\ minimumLogLevel' = minimumLogLevel]_vars

\* A tools/call whose params decoded, on a server with the tool shim installed, once
\* the shim has acted.
ShimActed(s) ==
    /\ ToolHandlerSet
    /\ call[s].method = MethodToolsCall
    /\ call[s].pc \notin {"idle", "started"}
    /\ UnmarshalOK(call[s].params, CallToolRequestParams)

\* The arguments carry a from_unit that is a string other than celsius and fahrenheit.
UndeclaredFromUnit(params) ==
    /\ StringField(params, "name") = "convert_temperature"
    /\ RawField(params, "arguments").val.t = "obj"
    /\ Has(RawField(params, "arguments").val, "from_unit")
    /\ Get(RawField(params, "arguments").val, "from_unit").t = "str"
    /\ Get(RawField(params, "arguments").val, "from_unit").s \notin {"celsius", "fahrenheit"}

\* C15: the tools/call shim enters a user tool handler only when the name is in the
\* catalog, the arguments decoded into that tool's request record and the record
\* passed the tool's schema, and then it is the handler generated for that name; a
\* from_unit outside [celsius, fahrenheit] and a name outside the catalog
\* (tool not found) are errors with no handler entered.
C15_ValidatedBeforeInvoke ==
    \A s \in Slots :
        ShimActed(s) =>
            LET name == StringField(call[s].params, "name")
                arguments == RawField(call[s].params, "arguments")
                idx == IndexFunc(ToolList, name)
            IN  /\ call[s].handler # "" =>
                      /\ idx # 0
                      /\ UnmarshalOK(arguments, ToolRequestFields(ToolList[idx]))
                      /\ ValidateByJSONSchema(ToolList[idx],
                                              MarshalRequest(arguments,
                                                             ToolRequestFields(ToolList[idx])))
                      /\ call[s].handler = "HandleTool:" \o name
                      /\ call[s].in = MarshalRequest(arguments, ToolRequestFields(ToolList[idx]))
                /\ idx = 0 =>
                      /\ call[s].handler = ""
                      /\ call[s].err = ErrFailedToHandle("tool not found")
                /\ UndeclaredFromUnit(call[s].params) =>
                      /\ call[s].handler = ""
                      /\ call[s].err.kind = "failed to handle"
                      /\ call[s].reply = ReplyNil

C15_Witness ==
    \E s \in Slots :
        /\ ShimActed(s)
        /\ call[s].pc = "done"
        /\ UndeclaredFromUnit(call[s].params)
        /\ Get(RawField(call[s].params, "arguments").val, "from_unit").s = "kelvin"
        /\ call[s].handler = ""
        /\ call[s].err = ErrFailedToHandle("invalid tool arguments")

\* base64.StdEncoding.EncodeToString(src): the standard, padded encoding.
EncodeToString(src) ==
    LET whole == (Len(src) \div 3) * 3
        left == Len(src) - whole
        last == IF left = 1
                THEN SubSeq(EncodeQuantum(src[whole + 1], 0, 0), 1, 2) \o <<"=", "=">>
                ELSE IF left = 2
                THEN SubSeq(EncodeQuantum(src[whole + 1], src[whole + 2], 0), 1, 3) \o <<"=">>
                ELSE <<>>
    IN  EncodeBlocks(SubSeq(src, 1, whole)) \o last

\* The value of a character of the alphabet; padding counts as zero bits.
DecodeChar(ch) ==
    IF ch = "=" THEN 0 ELSE (CHOOSE i \in 1..64 : encodeStd[i] = ch) - 1

\* base64.StdEncoding.DecodeString(text), for a text of whole four-character groups.
RECURSIVE DecodeString(_)
DecodeString(text) ==
    IF Len(text) < 4 THEN <<>>
    ELSE LET val == DecodeChar(text[1]) * 262144 + DecodeChar(text[2]) * 4096
                    + DecodeChar(text[3]) * 64 + DecodeChar(text[4])
             three == << val \div 65536, (val \div 256) % 256, val % 256 >>
             kept == IF text[3] = "=" THEN 1 ELSE IF text[4] = "=" THEN 2 ELSE 3
         IN  SubSeq(three, 1, kept) \o DecodeString(SubSeq(text, 5, Len(text)))

\* C13: the data member of the marshaled JSON is the standard, padded base64 encoding
\* of the whole payload: 4*ceil(len/3) characters that decode to the payload.
C13_DataIsPaddedBase64 ==
    marshal.pc = "done" =>
        /\ marshal.data = EncodeToString(marshal.payload)
        /\ Len(marshal.data) = 4 * ((Len(marshal.payload) + 2) \div 3)
        /\ DecodeString(marshal.data) = marshal.payload

\* C16: of the Accept calls made on the listener at most one returns a connection,
\* and every other one that has returned gave an error and no connection.
C16_SingleAccept ==
    /\ Cardinality({a \in Acceptors : accept[a].pc = "returned" /\ accept[a].conn}) <= 1
    /\ \A a \in Acceptors :
          accept[a].pc = "returned" => (accept[a].conn <=> accept[a].err = "")

\* C19: two invocations of Generate on the same definition, when they succeed, write
\* the same output, whatever order each ranged over the map of enum fields in.
C19_SameOutput ==
    \A g \in Invocations, h \in Invocations :
        (/\ gen[g].pc = "done" /\ gen[h].pc = "done"
         /\ gen[g].def = gen[h].def)
        => /\ gen[g].err = gen[h].err
           /\ gen[g].out = gen[h].out

C19_Witness ==
    /\ gen["first"].pc = "done" /\ gen["second"].pc = "done"
    /\ gen["first"].err = "" /\ gen["second"].err = ""
    /\ gen["first"].ranged # gen["second"].ranged
    /\ Len(gen["first"].out) > 0
    /\ gen["first"].out = gen["second"].out

\* The lines of the output that declare the constants of a type, in output order.
ConstsOf(out, enumTypeName) ==
    SelectSeq(out, LAMBDA line : line.kind = "const" /\ line.type = enumTypeName)

\* C20: for every tool field with a non-empty enum the output declares a named type,
\* int when every value is an integer-valued number and string otherwise, and one
\* constant per enum value: the integers in ascending order, or the values' texts in
\* lexicographic order.
C20_EnumTypeAndConstants ==
    \A g \in Invocations :
        gen[g].pc = "done" =>
            \A t \in DOMAIN gen[g].def :
                \A f \in DOMAIN gen[g].def[t].fields :
                    LET tool == gen[g].def[t]
                        enum == tool.fields[f].enum
                        enumTypeName == EnumTypeName(pascalCase(tool.name), tool.fields[f].tag)
                        allIntegers == \A i \in DOMAIN enum :
                                          enum[i].t = "float64" /\ enum[i].tenths % 10 = 0
                        consts == ConstsOf(gen[g].out, enumTypeName)
                    IN  Len(enum) > 0 =>
                          /\ \E i \in DOMAIN gen[g].out :
                                /\ gen[g].out[i].kind = "type"
                                /\ gen[g].out[i].name = enumTypeName
                                /\ gen[g].out[i].underlying
                                      = IF allIntegers THEN "int" ELSE "string"
                          /\ Len(consts) = Len(enum)
                          /\ \E p \in [DOMAIN enum -> DOMAIN enum] :
                                /\ \A i, j \in DOMAIN enum : i # j => p[i] # p[j]
                                /\ \A i \in DOMAIN enum :
                                      consts[i].value
                                         = IF allIntegers
                                           THEN Itoa(enum[p[i]].tenths \div 10)
                                           ELSE <<"\"">> \o Sprint(enum[p[i]]) \o <<"\"">>
                                /\ \A i, j \in DOMAIN enum :
                                      i < j =>
                                         IF allIntegers
                                         THEN enum[p[i]].tenths <= enum[p[j]].tenths
                                         ELSE Compare(Sprint(enum[p[i]]), Sprint(enum[p[j]])) <= 0

\* A user handler was entered for the request in slot s.
Entered(s) == call[s].pc \notin {"idle", "started"} /\ call[s].handler # ""

\* The params are an object whose cursor member is a string.
CarriesCursor(params) ==
    /\ params.present
    /\ params.val.t = "obj"
    /\ Has(params.val, "cursor")
    /\ Get(params.val, "cursor").t = "str"

\* C21: the context HandleResourcesList receives for a resources/list carrying the
\* cursor c makes NextCursor return (c, true), c being the string that was sent; the
\* context every other user handler receives makes it return ("", false).
C21_CursorInContext ==
    \A s \in Slots :
        Entered(s) =>
            /\ (call[s].handler = "HandleResourcesList" /\ CarriesCursor(call[s].params))
                  => NextCursor(call[s].cursor)
                        = <<Get(call[s].params.val, "cursor").s, TRUE>>
            /\ call[s].handler # "HandleResourcesList"
                  => NextCursor(call[s].cursor) = <<"", FALSE>>

C21_Witness ==
    \E s \in Slots :
        /\ Entered(s)
        /\ call[s].handler = "HandleResourcesList"
        /\ CarriesCursor(call[s].params)
        /\ NextCursor(call[s].cursor) = <<"12", TRUE>>

\* C26: for a resources/list whose params object has no cursor member, NextCursor
\* on the context HandleResourcesList receives returns ("", false).
C26_NoCursorIsAbsent ==
    \A s \in Slots :
        (/\ Entered(s)
         /\ call[s].handler = "HandleResourcesList"
         /\ call[s].params.present
         /\ call[s].params.val.t = "obj"
         /\ ~Has(call[s].params.val, "cursor"))
        => NextCursor(call[s].cursor) = <<"", FALSE>>

\* C30: a resources/list with no params member, on a Handler with a resource
\* handler, enters HandleResourcesList and replies with what it returned.
C30_AbsentParamsServed ==
    \A s \in Slots :
        (/\ ResourceHandlerSet
         /\ call[s].method = MethodResourcesList
         /\ call[s].pc \notin {"idle", "started"}
         /\ ~call[s].params.present)
        => /\ call[s].handler = "HandleResourcesList"
           /\ (Returned(s) /\ call[s].userErr = "") =>
                 /\ call[s].err = NoErr
                 /\ call[s].reply = call[s].userRes

\* C22: without the prompts capability prompts/list and prompts/get return
\* method-not-found and enter no prompt handler; without the logging capability
\* logging/setLevel returns method-not-found and leaves the minimum level alone.
C22_PromptsAndLoggingGated ==
    [][\A s \in Slots :
          (call[s].pc = "started" /\ call'[s] # call[s]) =>
             /\ ("prompts" \notin Capabilities
                 /\ call[s].method \in {MethodPromptsList, MethodPromptsGet})
                   => /\ call'[s].pc = "returning"
                      /\ call'[s].err = ErrMethodNotFound
                      /\ call'[s].handler = ""
             /\ ("logging" \notin Capabilities /\ call[s].method = MethodLoggingSetLevel)
                   => /\ call'[s].pc = "returning"
                      /\ call'[s].err = ErrMethodNotFound
                      /\ minimumLogLevel' = minimumLogLevel]_vars

\* C23: Handle returns normally for every request on every capability set: it never
\* panics, and an error a user handler returned comes back as an error wrapping it.
C23_NeverPanics ==
    \A s \in Slots :
        Returned(s) =>
            /\ call[s].err.kind # "panic"
            /\ call[s].userErr # "" => call[s].err = ErrFailedToHandle(call[s].userErr)


\* The name with its spaces removed, as pascalCase sees the words of a name.
WithoutSpaces(name) == SelectSeq(name, LAMBDA ch : ch # " ")
\* Every word of the name, its first letter in upper case and the rest in lower
\* case, with the joiners between the words dropped.
CapitalisedWords(name) ==
    LET letters == WithoutSpaces(name)
        cased == [i \in DOMAIN letters |->
                     IF letters[i] \in Joiners THEN letters[i]
                     ELSE IF i = 1 \/ letters[i - 1] \in Joiners THEN ToUpper(letters[i])
                     ELSE ToLower(letters[i])]
    IN  SelectSeq(cased, LAMBDA ch : ch \notin Joiners)

\* C24: for a snake or kebab wire name, pascalCase returns the capitalised words of
\* the name with no joiner and no space left, so that the result is an identifier.
C24_PascalCaseIsIdentifier ==
    naming.pc = "returned" =>
        /\ \A i \in DOMAIN naming.out : naming.out[i] \notin Joiners \cup {" "}
        /\ naming.out = CapitalisedWords(naming.name)
        /\ IsIdentifier(naming.out)

\* The named severities and their thresholds.
Thresholds ==
    { <<0 - 4, "debug">>, <<0, "info">>, <<1, "notice">>, <<4, "warning">>,
      <<8, "error">>, <<9, "critical">>, <<10, "alert">> }
\* The name of the severity with the smallest threshold that is >= level.
NextHigherSeverity(level) ==
    IF level > 10 THEN "emergency"
    ELSE LET t == CHOOSE t \in Thresholds :
                      /\ t[1] >= level
                      /\ \A u \in Thresholds : u[1] >= level => t[1] <= u[1]
         IN  t[2]

\* C25: levelNameForLogging maps every level to the next-higher named severity, and
\* a level name parsed by LogLevel.UnmarshalJSON is mapped back to the same name.
C25_LevelNameCascade ==
    leveling.pc = "returned" =>
        /\ leveling.name = NextHigherSeverity(leveling.level)
        /\ leveling.given # "" => leveling.name = leveling.given

\* C25: the intermediate level 3 has been mapped, to "warning".
C25_Witness ==
    leveling.pc = "returned" /\ leveling.level = 3 /\ leveling.name = "warning"


\* The slots the token listener was built with: MaxConns, 5 when that is unset.
SlotsOf(l) == IF l.maxConns = 0 THEN 5 ELSE l.maxConns
\* The callers holding an accepted connection that has not been closed.
OpenConns == {a \in Acceptors : accept[a].conn /\ ~accept[a].closed}

\* C27: on the token listener the slots held are as many as the accepted connections
\* that have not been closed, and never more than the listener was built with.
C27_SlotsAreOpenConns ==
    build = "string-key" =>
        /\ listener.tokens = Cardinality(OpenConns)
        /\ listener.tokens <= SlotsOf(listener)


\* C28: every key of the registry is the key of a request whose Handle has started
\* and not returned, and the registry is empty when no Handle is in progress.
C28_KeysAreInFlight ==
    /\ \A p \in cancelFuncByRequestID :
          \E s \in Slots : InFlight(s) /\ RegistryKey(call[s].id) = p[1]
    /\ (\A s \in Slots : ~InFlight(s)) => cancelFuncByRequestID = {}

\* C28: one Handle has returned while another is in progress, and the registry
\* holds the entry of that other one alone.
C28_Witness ==
    \E s \in Slots, t \in Slots :
        /\ call[s].pc = "done"
        /\ call[s].id # NoID
        /\ InFlight(t)
        /\ call[t].id # NoID
        /\ cancelFuncByRequestID = {<<RegistryKey(call[t].id), t>>}

\* A notifications/cancelled has loaded the cancel function of the invocation, or
\* has called it.
Cancelled(s) ==
    \/ ctxDone[s]
    \/ \E n \in Slots : call[n].pc = "cancelling" /\ call[n].v = s

\* C29: of requests in flight with pairwise distinct IDs, each one that has an ID
\* and has not been cancelled holds a registry entry with its own cancel function.
C29_OwnEntryPerRequest ==
    (\A s \in Slots, t \in Slots :
        (s # t /\ InFlight(s) /\ InFlight(t) /\ call[s].id # NoID) => call[s].id # call[t].id)
    => \A s \in Slots :
          (InFlight(s) /\ call[s].id # NoID /\ ~Cancelled(s))
          => <<RegistryKey(call[s].id), s>> \in cancelFuncByRequestID

====
